---- MODULE Spec2Model ----
(***************************************************************************)
(* A model of dds (tcbrindle/dds): the parallel pass runner of the build   *)
(* plan (parallel_run, build_plan::compile_all, build_plan::archive_all)   *)
(* and the local source-distribution repository (repository::add_sdist,    *)
(* repository::find, load_sdists).                                         *)
(***************************************************************************)
EXTENDS Integers, Sequences, FiniteSets, TLC

(***************************************************************************)
(* Bounds of the model.                                                    *)
(***************************************************************************)
\* number of library_plans in build_plan::create_libraries
NumLibs == 2
\* largest number of compile_file_plans of one library
MaxFiles == 2
\* largest value of the njobs argument that is tried
MaxJobs == 2
\* the value std::thread::hardware_concurrency() returns on the host
HardwareConcurrency == 0
\* number of distinct dependency lists a manifest can carry
NumDepLists == 2

\* the longest `uses` list of a library in the usage maps under study
MaxUses == 2

\* the most pairs after the compiler id in a toolchain file with repeated options
MaxPairs == 3

\* the most pieces of a built-in toolchain id
MaxIdPieces == 4

VARIABLES
    \* ---- build plan executor --------------------------------------------
    create_libraries,  \* build_plan::create_libraries: per library, its plan
    n_jobs,            \* the njobs argument of the pass
    pass,              \* where the build is: which pass is executing
    mpc,               \* position of the thread that called parallel_run
    mut,               \* std::mutex mut: "free", or held by "main"
    rng,               \* the range handed to parallel_run
    iter,              \* the shared cursor (index into rng; stop = Len+1)
    exceptions,        \* std::vector<std::exception_ptr> exceptions
    threads,           \* std::vector<std::thread> threads: one state each
    joined,            \* number of threads the caller has joined
    okay,              \* value returned by the last parallel_run
    raised,            \* exceptions that left compile_all / archive_all
    taken,             \* history: items taken from the cursor, in order
    finished,          \* history: items whose fn has ended (either way)
    fn_failed,         \* history: items whose fn threw
    compiled,          \* history: compile jobs that ran to completion
    \* ---- local repository ----------------------------------------------
    disk,              \* the directories under repository::_root
    _write_enabled,    \* repository::_write_enabled
    _sdists,           \* repository::_sdists (sdist_set keyed by package_id)
    rpc,               \* position inside repository::add_sdist
    call,              \* arguments of the current / last add_sdist call
    pre,               \* history: disk and _sdists when the call was entered
    result,            \* history: how the last add_sdist call ended
    \* ---- functions of the solver, usage map and toolchain ---------------
    op,                \* the function that was applied last ("none" at first)
    arg,               \* the inputs the functions are applied to
    ret                \* what the applied functions returned

bvars == <<create_libraries, n_jobs, pass, mpc, mut, rng, iter, exceptions,
           threads, joined, okay, raised, taken, finished, fn_failed,
           compiled>>

rvars == <<disk, _write_enabled, _sdists, rpc, call, pre, result>>

fvars == <<op, arg, ret>>

vars == <<bvars, rvars, fvars>>

(***************************************************************************)
(* Helpers                                                                 *)
(***************************************************************************)
Range(s) == {s[i] : i \in 1..Len(s)}

Max(a, b) == IF a > b THEN a ELSE b

\* the largest number of worker threads a pass can create
MaxWorkers == Max(MaxJobs, HardwareConcurrency + 2)

Workers == 1..MaxWorkers

\* a slot of the threads vector that holds no thread
NoThread == [st |-> "none", item |-> <<>>]

RECURSIVE FlattenFrom(_, _)
\* compile_all's loop over create_libraries and lib.compile_files, from lib l
FlattenFrom(libs, l) ==
    IF l > Len(libs) THEN <<>>
    ELSE [f \in 1..libs[l].compile_files |-> <<"compile", l, f>>]
         \o FlattenFrom(libs, l + 1)

\* the vector comps that compile_all builds
comps(libs) == FlattenFrom(libs, 1)

\* the range archive_all iterates: create_libraries itself
archives(libs) == [l \in 1..Len(libs) |-> <<"archive", l>>]

\* library_plan::create: an archive plan exists iff the library has sources
library_plan(n) == [compile_files |-> n, create_archive |-> n > 0]

\* n_jobs as adjusted at the top of parallel_run
worker_count(n) == IF n < 1 THEN HardwareConcurrency + 2 ELSE n

\* can fn(item) throw?  A compile job throws when its subprocess fails; the
\* archive lambda returns at once for a library without create_archive and
\* otherwise throws when run_proc(ar_cmd) is not okay.
may_throw(item) ==
    IF item[1] = "compile" THEN TRUE
    ELSE create_libraries[item[2]].create_archive

(***************************************************************************)
(* parallel_run                                                            *)
(***************************************************************************)
\* entry of parallel_run that leaves mut unlocked while threads are created
parallel_run_unlocked(r) ==
    /\ rng' = r
    /\ iter' = 1
    /\ exceptions' = <<>>
    /\ mut' = "free"
    /\ threads' = [w \in Workers |-> NoThread]
    /\ joined' = 0
    /\ taken' = <<>>
    /\ mpc' = "spawn"

\* entry of parallel_run(r, n_jobs, fn): locals are constructed, the caller
\* locks mut before any thread exists
parallel_run(r) ==
    /\ rng' = r
    /\ iter' = 1
    /\ exceptions' = <<>>
    /\ mut' = "main"
    /\ threads' = [w \in Workers |-> NoThread]
    /\ joined' = 0
    /\ taken' = <<>>
    /\ mpc' = "spawn"

\* std::generate_n(back_inserter(threads), n_jobs, ...): one thread is created
parallel_run_spawn ==
    /\ mpc = "spawn"
    /\ \E w \in Workers :
        /\ threads[w].st = "none"
        /\ \A v \in Workers : v < w => threads[v].st # "none"
        /\ w <= worker_count(n_jobs)
        /\ threads' = [threads EXCEPT ![w] = [st |-> "lock", item |-> <<>>]]
    /\ UNCHANGED <<rvars, fvars>>
    /\ UNCHANGED <<create_libraries, n_jobs, pass, mpc, mut, rng, iter,
                   exceptions, joined, okay, raised, taken, finished,
                   fn_failed, compiled>>

\* lk.unlock() after all n_jobs threads were created
parallel_run_unlock ==
    /\ mpc = "spawn"
    /\ \A w \in Workers : w <= worker_count(n_jobs) => threads[w].st # "none"
    /\ mut' = "free"
    /\ mpc' = "join"
    /\ UNCHANGED <<rvars, fvars>>
    /\ UNCHANGED <<create_libraries, n_jobs, pass, rng, iter, exceptions,
                   threads, joined, okay, raised, taken, finished, fn_failed,
                   compiled>>

\* run_one taking *iter without advancing the cursor
run_one_take_no_advance(w) ==
    /\ threads[w].st = "lock"
    /\ mut = "free"
    /\ IF exceptions # <<>> \/ iter = Len(rng) + 1
       THEN /\ threads' = [threads EXCEPT ![w] = [st |-> "exited", item |-> <<>>]]
            /\ UNCHANGED <<iter, taken>>
       ELSE /\ threads' = [threads EXCEPT ![w] = [st |-> "run", item |-> rng[iter]]]
            /\ iter' = iter
            /\ taken' = Append(taken, rng[iter])
    /\ UNCHANGED <<rvars, fvars>>
    /\ UNCHANGED <<create_libraries, n_jobs, pass, mpc, mut, rng, exceptions,
                   joined, okay, raised, finished, fn_failed, compiled>>

\* run_one taking an item without looking at the exceptions list
run_one_take_unchecked(w) ==
    /\ threads[w].st = "lock"
    /\ mut = "free"
    /\ IF iter = Len(rng) + 1
       THEN /\ threads' = [threads EXCEPT ![w] = [st |-> "exited", item |-> <<>>]]
            /\ UNCHANGED <<iter, taken>>
       ELSE /\ threads' = [threads EXCEPT ![w] = [st |-> "run", item |-> rng[iter]]]
            /\ iter' = iter + 1
            /\ taken' = Append(taken, rng[iter])
    /\ UNCHANGED <<rvars, fvars>>
    /\ UNCHANGED <<create_libraries, n_jobs, pass, mpc, mut, rng, exceptions,
                   joined, okay, raised, finished, fn_failed, compiled>>

\* run_one, the part under the lock: test exceptions and the cursor, take one
run_one_take(w) ==
    /\ threads[w].st = "lock"
    /\ mut = "free"
    /\ IF exceptions # <<>> \/ iter = Len(rng) + 1
       THEN /\ threads' = [threads EXCEPT ![w] = [st |-> "exited", item |-> <<>>]]
            /\ UNCHANGED <<iter, taken>>
       ELSE /\ threads' = [threads EXCEPT ![w] = [st |-> "run", item |-> rng[iter]]]
            /\ iter' = iter + 1
            /\ taken' = Append(taken, rng[iter])
    /\ UNCHANGED <<rvars, fvars>>
    /\ UNCHANGED <<create_libraries, n_jobs, pass, mpc, mut, rng, exceptions,
                   joined, okay, raised, finished, fn_failed, compiled>>

\* run_one: fn(item) returns normally, the loop goes back to the lock
run_one_fn_returns(w) ==
    /\ threads[w].st = "run"
    /\ threads' = [threads EXCEPT ![w] = [st |-> "lock", item |-> <<>>]]
    /\ finished' = finished \cup {threads[w].item}
    /\ compiled' = IF threads[w].item[1] = "compile"
                   THEN compiled \cup {threads[w].item} ELSE compiled
    /\ UNCHANGED <<rvars, fvars>>
    /\ UNCHANGED <<create_libraries, n_jobs, pass, mpc, mut, rng, iter,
                   exceptions, joined, okay, raised, taken, fn_failed>>

\* run_one: fn(item) throws; the handler has yet to take the lock
run_one_fn_throws(w) ==
    /\ threads[w].st = "run"
    /\ may_throw(threads[w].item)
    /\ threads' = [threads EXCEPT ![w].st = "caught"]
    /\ finished' = finished \cup {threads[w].item}
    /\ fn_failed' = fn_failed \cup {threads[w].item}
    /\ UNCHANGED <<rvars, fvars>>
    /\ UNCHANGED <<create_libraries, n_jobs, pass, mpc, mut, rng, iter,
                   exceptions, joined, okay, raised, taken, compiled>>

\* run_one, catch (...): lk.lock(); exceptions.push_back(...); break
run_one_catch(w) ==
    /\ threads[w].st = "caught"
    /\ mut = "free"
    /\ exceptions' = Append(exceptions, threads[w].item)
    /\ threads' = [threads EXCEPT ![w] = [st |-> "exited", item |-> <<>>]]
    /\ UNCHANGED <<rvars, fvars>>
    /\ UNCHANGED <<create_libraries, n_jobs, pass, mpc, mut, rng, iter, joined,
                   okay, raised, taken, finished, fn_failed, compiled>>

\* a join that does not wait for the thread to end
parallel_run_join_nowait ==
    /\ mpc = "join"
    /\ joined < worker_count(n_jobs)
    /\ joined' = joined + 1
    /\ UNCHANGED <<rvars, fvars>>
    /\ UNCHANGED <<create_libraries, n_jobs, pass, mpc, mut, rng, iter,
                   exceptions, threads, okay, raised, taken, finished,
                   fn_failed, compiled>>

\* for (auto& t : threads) t.join(): the next thread is joined once it ended
parallel_run_join ==
    /\ mpc = "join"
    /\ joined < worker_count(n_jobs)
    /\ threads[joined + 1].st = "exited"
    /\ joined' = joined + 1
    /\ UNCHANGED <<rvars, fvars>>
    /\ UNCHANGED <<create_libraries, n_jobs, pass, mpc, mut, rng, iter,
                   exceptions, threads, okay, raised, taken, finished,
                   fn_failed, compiled>>

\* the exceptions are logged and parallel_run returns exceptions.empty()
parallel_run_return ==
    /\ mpc = "join"
    /\ joined = worker_count(n_jobs)
    /\ okay' = (exceptions = <<>>)
    /\ mpc' = "ret"
    /\ UNCHANGED <<rvars, fvars>>
    /\ UNCHANGED <<create_libraries, n_jobs, pass, mut, rng, iter, exceptions,
                   threads, joined, raised, taken, finished, fn_failed,
                   compiled>>

(***************************************************************************)
(* build_plan::compile_all, build_plan::archive_all and their caller       *)
(***************************************************************************)
\* build(): the two passes in order; the archive pass is entered only when
\* compile_all returned without raising
build(step) ==
    IF step = "compile_all" THEN pass = "none" ELSE pass = "compiled"

\* compile_all: flatten the compile plans and run them
compile_all ==
    /\ build("compile_all")
    /\ pass' = "compile"
    /\ parallel_run(comps(create_libraries))
    /\ UNCHANGED <<rvars, fvars>>
    /\ UNCHANGED <<create_libraries, n_jobs, okay, raised, finished, fn_failed,
                   compiled>>

\* compile_all dropping the result of parallel_run, as archive_all does
compile_all_return_discard ==
    /\ pass = "compile"
    /\ mpc = "ret"
    /\ mpc' = "none"
    /\ pass' = "compiled"
    /\ UNCHANGED <<rvars, fvars>>
    /\ UNCHANGED <<create_libraries, n_jobs, mut, rng, iter, exceptions,
                   threads, joined, okay, raised, taken, finished, fn_failed,
                   compiled>>

\* compile_all after parallel_run: if (!okay) throw "Compilation failed."
compile_all_return ==
    /\ pass = "compile"
    /\ mpc = "ret"
    /\ mpc' = "none"
    /\ IF ~okay
       THEN /\ raised' = Append(raised, "Compilation failed.")
            /\ pass' = "failed"
       ELSE /\ raised' = raised
            /\ pass' = "compiled"
    /\ UNCHANGED <<rvars, fvars>>
    /\ UNCHANGED <<create_libraries, n_jobs, mut, rng, iter, exceptions,
                   threads, joined, okay, taken, finished, fn_failed, compiled>>

\* archive_all: run the archive lambda over create_libraries
archive_all ==
    /\ build("archive_all")
    /\ pass' = "archive"
    /\ parallel_run(archives(create_libraries))
    /\ UNCHANGED <<rvars, fvars>>
    /\ UNCHANGED <<create_libraries, n_jobs, okay, raised, finished, fn_failed,
                   compiled>>

\* archive_all after parallel_run: the returned bool is discarded
archive_all_return ==
    /\ pass = "archive"
    /\ mpc = "ret"
    /\ mpc' = "none"
    /\ pass' = "archived"
    /\ UNCHANGED <<rvars, fvars>>
    /\ UNCHANGED <<create_libraries, n_jobs, mut, rng, iter, exceptions,
                   threads, joined, okay, raised, taken, finished, fn_failed,
                   compiled>>

(***************************************************************************)
(* Local repository: filesystem and sdists                                 *)
(***************************************************************************)
\* package_id: (name, version); two versions of one package are in play
PackageIds == [name : {"foo"}, version : {"1.0.0", "1.2.3"}]

\* the dependency lists a manifest can declare
DepLists == {[n \in 1..k |-> "dep"] : k \in 0..(NumDepLists - 1)}

Manifests == [pkg_id : PackageIds, dependencies : DepLists]

\* package_id::to_string(): name@version, as a sequence of path characters
to_string(p) == <<p.name, "@", p.version>>

\* the filename ".tmp-import"
TmpImport == <<".", "tmp-import">>

\* starts_with(p.filename().string(), ".")
starts_with_dot(fname) == fname[1] = "."

\* the directory names that can occur under _root
DirNames == {to_string(p) : p \in PackageIds} \cup {TmpImport}

\* a directory that does not exist
Absent == [exists |-> FALSE]

NoManifest == [none |-> TRUE]

\* a directory tree: its manifest file (if any) and whether all files exist
tree(man, full) == [exists |-> TRUE, man |-> man, full |-> full]

\* what an interrupted recursive copy or removal of tree t can leave behind
Partial(t) == {tree(m, FALSE) : m \in {NoManifest, t.man}}

\* the tree at sd.path, which lies outside the repository
SourceTree(sd) == tree(sd.manifest, TRUE)

NoSdist == [none |-> TRUE]

\* sdist::from_directory(p): the manifest is read and must name directory p
from_directory(p, t) ==
    IF t = Absent \/ t.man = NoManifest THEN NoSdist
    ELSE IF to_string(t.man.pkg_id) # p THEN NoSdist
    ELSE [manifest |-> t.man, path |-> p]

\* load_sdists: every directory entry of root, dot-files and load failures
\* dropped
load_sdists(d) ==
    {from_directory(n, d[n]) :
        n \in {m \in DirNames : /\ d[m] # Absent
                                /\ ~starts_with_dot(m)
                                /\ from_directory(m, d[m]) # NoSdist}}

\* repository::_open_for_directory
_open_for_directory(writeable, d) ==
    [writeable |-> writeable, entries |-> load_sdists(d)]

\* sdist_set::insert: the set is keyed by pkg_id, an equal key is kept
insert(set, sd) ==
    IF \E e \in set : e.manifest.pkg_id = sd.manifest.pkg_id
    THEN set
    ELSE set \cup {sd}

\* repository::find applied to a given set
find_in(set, pkg) ==
    IF \E e \in set : e.manifest.pkg_id = pkg
    THEN CHOOSE e \in set : e.manifest.pkg_id = pkg
    ELSE NoSdist

\* repository::find
find(pkg) == find_in(_sdists, pkg)

IfExists == {"throw_exc", "ignore", "replace"}

\* the sdists that can be handed to add_sdist
ImportSdists == [manifest : Manifests, path : {<<"import">>}]

sd_dest == to_string(call.sd.manifest.pkg_id)

\* an add_sdist call ends by an exception or a return
add_sdist_ends(how) ==
    /\ rpc' = "idle"
    /\ result' = how

\* add_sdist without the _write_enabled check
add_sdist_unguarded(sd, ife_action) ==
    /\ rpc = "idle"
    /\ call' = [sd |-> sd, ife_action |-> ife_action]
    /\ pre' = [disk |-> disk, sdists |-> _sdists]
    /\ IF disk[to_string(sd.manifest.pkg_id)] # Absent
          /\ ife_action = "throw_exc"
       THEN add_sdist_ends("sdist_exists")
       ELSE IF disk[to_string(sd.manifest.pkg_id)] # Absent
               /\ ife_action = "ignore"
       THEN add_sdist_ends("ignored")
       ELSE /\ rpc' = "remove_tmp"
            /\ result' = "running"
    /\ UNCHANGED <<disk, _write_enabled, _sdists>>
    /\ UNCHANGED <<bvars, fvars>>

\* add_sdist up to the policy decision: the write check, then fs::exists
add_sdist(sd, ife_action) ==
    /\ rpc = "idle"
    /\ call' = [sd |-> sd, ife_action |-> ife_action]
    /\ pre' = [disk |-> disk, sdists |-> _sdists]
    /\ IF ~_write_enabled
       THEN /\ rpc' = "terminated"
            /\ result' = "terminated"
       ELSE IF disk[to_string(sd.manifest.pkg_id)] # Absent
               /\ ife_action = "throw_exc"
       THEN add_sdist_ends("sdist_exists")
       ELSE IF disk[to_string(sd.manifest.pkg_id)] # Absent
               /\ ife_action = "ignore"
       THEN add_sdist_ends("ignored")
       ELSE /\ rpc' = "remove_tmp"
            /\ result' = "running"
    /\ UNCHANGED <<disk, _write_enabled, _sdists>>
    /\ UNCHANGED <<bvars, fvars>>

\* if (fs::exists(tmp_copy)) fs::remove_all(tmp_copy); create_directories
add_sdist_remove_tmp ==
    /\ rpc = "remove_tmp"
    /\ \/ /\ disk' = [disk EXCEPT ![TmpImport] = Absent]
          /\ rpc' = "copy"
          /\ UNCHANGED result
       \/ /\ disk[TmpImport] # Absent
          /\ \E t \in {disk[TmpImport]} \cup Partial(disk[TmpImport]) :
                disk' = [disk EXCEPT ![TmpImport] = t]
          /\ add_sdist_ends("remove_tmp_failed")
    /\ UNCHANGED <<_write_enabled, _sdists, call, pre>>
    /\ UNCHANGED <<bvars, fvars>>

\* a copy step that enters sd into the in-memory set before copying
add_sdist_copy_inserts_first ==
    /\ rpc = "copy"
    /\ _sdists' = insert(_sdists, [manifest |-> call.sd.manifest, path |-> sd_dest])
    /\ \/ /\ disk' = [disk EXCEPT ![TmpImport] = SourceTree(call.sd)]
          /\ rpc' = "remove_dest"
          /\ UNCHANGED result
       \/ /\ \E t \in {Absent} \cup Partial(SourceTree(call.sd)) :
                disk' = [disk EXCEPT ![TmpImport] = t]
          /\ add_sdist_ends("copy_failed")
    /\ UNCHANGED <<_write_enabled, call, pre>>
    /\ UNCHANGED <<bvars, fvars>>

\* fs::copy(sd.path, tmp_copy, recursive)
add_sdist_copy ==
    /\ rpc = "copy"
    /\ \/ /\ disk' = [disk EXCEPT ![TmpImport] = SourceTree(call.sd)]
          /\ rpc' = "remove_dest"
          /\ UNCHANGED result
       \/ /\ \E t \in {Absent} \cup Partial(SourceTree(call.sd)) :
                disk' = [disk EXCEPT ![TmpImport] = t]
          /\ add_sdist_ends("copy_failed")
    /\ UNCHANGED <<_write_enabled, _sdists, call, pre>>
    /\ UNCHANGED <<bvars, fvars>>

\* if (fs::exists(sd_dest)) fs::remove_all(sd_dest)
add_sdist_remove_dest ==
    /\ rpc = "remove_dest"
    /\ \/ /\ disk' = [disk EXCEPT ![sd_dest] = Absent]
          /\ rpc' = "rename"
          /\ UNCHANGED result
       \/ /\ disk[sd_dest] # Absent
          /\ \E t \in {disk[sd_dest]} \cup Partial(disk[sd_dest]) :
                disk' = [disk EXCEPT ![sd_dest] = t]
          /\ add_sdist_ends("remove_dest_failed")
    /\ UNCHANGED <<_write_enabled, _sdists, call, pre>>
    /\ UNCHANGED <<bvars, fvars>>

\* fs::rename(tmp_copy, sd_dest)
add_sdist_rename ==
    /\ rpc = "rename"
    /\ \/ /\ disk' = [disk EXCEPT ![sd_dest] = disk[TmpImport],
                                  ![TmpImport] = Absent]
          /\ rpc' = "insert"
          /\ UNCHANGED result
       \/ /\ UNCHANGED disk
          /\ add_sdist_ends("rename_failed")
    /\ UNCHANGED <<_write_enabled, _sdists, call, pre>>
    /\ UNCHANGED <<bvars, fvars>>

\* _sdists.insert(sdist::from_directory(sd_dest))
add_sdist_insert ==
    /\ rpc = "insert"
    /\ IF from_directory(sd_dest, disk[sd_dest]) = NoSdist
       THEN /\ add_sdist_ends("load_failed")
            /\ UNCHANGED _sdists
       ELSE /\ _sdists' = insert(_sdists, from_directory(sd_dest, disk[sd_dest]))
            /\ add_sdist_ends("ok")
    /\ UNCHANGED <<disk, _write_enabled, call, pre>>
    /\ UNCHANGED <<bvars, fvars>>

(***************************************************************************)
(* Specification of the repository                                         *)
(***************************************************************************)
\* the package directories a repository root can hold when it is opened:
\* none, a loadable sdist, or a directory that fails to load
InitialDirs(p) ==
    {Absent, tree(NoManifest, FALSE)}
        \cup {tree([pkg_id |-> p, dependencies |-> d], TRUE) : d \in DepLists}

NoCall == [sd |-> NoSdist, ife_action |-> "none"]

\* the build executor at rest, for the repository's specification
BuildAtRest ==
    /\ create_libraries = [l \in 1..NumLibs |-> library_plan(0)]
    /\ n_jobs = 1
    /\ pass = "none"
    /\ mpc = "none"
    /\ mut = "free"
    /\ rng = <<>>
    /\ iter = 1
    /\ exceptions = <<>>
    /\ threads = [w \in Workers |-> NoThread]
    /\ joined = 0
    /\ okay = TRUE
    /\ raised = <<>>
    /\ taken = <<>>
    /\ finished = {}
    /\ fn_failed = {}
    /\ compiled = {}

\* no function applied, for the specifications of the executor and repository
FunctionsAtRest ==
    /\ op = "none"
    /\ arg = <<>>
    /\ ret = <<>>

\* the repository at rest, for the build executor's specification
RepoAtRest ==
    /\ disk = [n \in DirNames |-> Absent]
    /\ _write_enabled = FALSE
    /\ _sdists = {}
    /\ rpc = "idle"
    /\ call = NoCall
    /\ pre = [disk |-> disk, sdists |-> _sdists]
    /\ result = "none"

RepoOpened ==
    /\ disk \in {d \in [DirNames -> {Absent, tree(NoManifest, FALSE)}
                                     \cup UNION {InitialDirs(p) : p \in PackageIds}] :
                    \A p \in PackageIds : d[to_string(p)] \in InitialDirs(p)}
    /\ \E writeable \in BOOLEAN :
          /\ _write_enabled = _open_for_directory(writeable, disk).writeable
          /\ _sdists = _open_for_directory(writeable, disk).entries
    /\ rpc = "idle"
    /\ call = NoCall
    /\ pre = [disk |-> disk, sdists |-> _sdists]
    /\ result = "none"

RepoInit ==
    /\ BuildAtRest
    /\ FunctionsAtRest
    /\ RepoOpened

RepoNext ==
    \/ \E sd \in ImportSdists, ife_action \in IfExists : add_sdist(sd, ife_action)
    \/ add_sdist_remove_tmp
    \/ add_sdist_copy
    \/ add_sdist_remove_dest
    \/ add_sdist_rename
    \/ add_sdist_insert

(***************************************************************************)
(* Specification of the build executor                                     *)
(***************************************************************************)
BuildInit ==
    /\ RepoAtRest
    /\ FunctionsAtRest
    /\ create_libraries \in [1..NumLibs -> {library_plan(n) : n \in 0..MaxFiles}]
    /\ n_jobs \in 0..MaxJobs
    /\ pass = "none"
    /\ mpc = "none"
    /\ mut = "free"
    /\ rng = <<>>
    /\ iter = 1
    /\ exceptions = <<>>
    /\ threads = [w \in Workers |-> NoThread]
    /\ joined = 0
    /\ okay = TRUE
    /\ raised = <<>>
    /\ taken = <<>>
    /\ finished = {}
    /\ fn_failed = {}
    /\ compiled = {}

BuildNext ==
    \/ compile_all
    \/ parallel_run_spawn
    \/ parallel_run_unlock
    \/ \E w \in Workers : run_one_take(w)
    \/ \E w \in Workers : run_one_fn_returns(w)
    \/ \E w \in Workers : run_one_fn_throws(w)
    \/ \E w \in Workers : run_one_catch(w)
    \/ parallel_run_join
    \/ parallel_run_return
    \/ compile_all_return
    \/ archive_all
    \/ archive_all_return



SpecBuild == BuildInit /\ [][BuildNext]_vars

SpecRepo == RepoInit /\ [][RepoNext]_vars

\* the handle is dropped and the repository is opened again:
\* _open_for_directory loads the sdists and leaves the directory as it is
reopen ==
    /\ rpc = "idle"
    /\ \E writeable \in BOOLEAN :
          /\ _write_enabled' = _open_for_directory(writeable, disk).writeable
          /\ _sdists' = _open_for_directory(writeable, disk).entries
    /\ call' = NoCall
    /\ pre' = [disk |-> disk, sdists |-> _sdists']
    /\ result' = "opened"
    /\ UNCHANGED <<disk, rpc>>
    /\ UNCHANGED <<bvars, fvars>>

SpecReopen == RepoInit /\ [][RepoNext \/ reopen]_vars

(***************************************************************************)
(* repository::solve: the candidate versions handed to the solver          *)
(***************************************************************************)
\* the packages a catalog can list
CatalogIds == [name : {"bar", "foo"}, version : {"1.0.0", "1.2.3", "2.0.0"}]

\* semver::version order: the three numbers of the version strings compared
version_less(a, b) ==
    LET parse(v) == CASE v = "1.0.0" -> <<1, 0, 0>>
                      [] v = "1.2.3" -> <<1, 2, 3>>
                      [] v = "2.0.0" -> <<2, 0, 0>>
        x == parse(a)
        y == parse(b)
    IN  \/ x[1] < y[1]
        \/ x[1] = y[1] /\ x[2] < y[2]
        \/ x[1] = y[1] /\ x[2] = y[2] /\ x[3] < y[3]

\* package_id::operator<: by name (std::string order), then by version
less(a, b) ==
    LET names == <<"bar", "foo">>
        index(n) == CHOOSE i \in DOMAIN names : names[i] = n
    IN  \/ index(a.name) < index(b.name)
        \/ a.name = b.name /\ version_less(a.version, b.version)

\* the comparison object handed to an algorithm
invoke(pred, a, b) ==
    CASE pred = "less"     -> less(a, b)
      [] pred = "equal_to" -> a = b

\* the elements of a set keyed by package_id, in the set's order
RECURSIVE views_all(_)
views_all(ids) ==
    IF ids = {} THEN <<>>
    ELSE LET m == CHOOSE x \in ids : \A y \in ids \ {x} : less(x, y)
         IN  <<m>> \o views_all(ids \ {m})

\* catalog::by_name: the catalog's packages of that name
by_name(catalog, name) == views_all({p \in catalog : p.name = name})

\* ranges::sort(all, std::less<>{}): the vector sorted in place
RECURSIVE sort(_)
sort(all) ==
    IF all = <<>> THEN <<>>
    ELSE LET m == CHOOSE i \in 1..Len(all) :
                      \A j \in 1..Len(all) : ~less(all[j], all[i])
         IN  <<all[m]>> \o sort([k \in 1..(Len(all) - 1) |->
                                    IF k < m THEN all[k] ELSE all[k + 1]])

\* an element whose value was moved out
MovedFrom == [moved_from |-> TRUE]

\* the loop of ranges::unique: an element that does not satisfy pred with
\* the last kept one is moved behind it
RECURSIVE unique_loop(_, _, _, _)
unique_loop(all, first, i, pred) ==
    IF i > Len(all) THEN [elems |-> all, end |-> first + 1]
    ELSE IF ~invoke(pred, all[first], all[i])
         THEN unique_loop(IF first + 1 = i THEN all
                          ELSE [all EXCEPT ![first + 1] = all[i], ![i] = MovedFrom],
                          first + 1, i + 1, pred)
         ELSE unique_loop(all, first, i + 1, pred)

\* ranges::unique(all, pred), the algorithm: the vector keeps its length,
\* the new end is returned; it starts at the first position whose element
\* and successor satisfy pred (ranges::adjacent_find)
unique(all, pred) ==
    LET hits  == {i \in 1..(Len(all) - 1) : invoke(pred, all[i], all[i + 1])}
        first == IF hits = {} THEN Len(all) + 1
                 ELSE CHOOSE i \in hits : \A j \in hits : i <= j
    IN  IF first > Len(all) THEN [elems |-> all, end |-> first]
        ELSE unique_loop(all, first, first + 2, pred)

\* versions_of in repository::solve: the result of ranges::unique is
\* dropped and the vector is returned
versions_of(sdists, catalog, name) ==
    LET mine   == views_all({e.manifest.pkg_id : e \in {x \in sdists : x.manifest.pkg_id.name = name}})
        avail  == by_name(catalog, name)
        all    == mine \o avail
        sorted == sort(all)
    IN  unique(sorted, "less").elems

\* repository::solve asks for the versions of one name
solve_versions_of ==
    /\ op = "none"
    /\ op' = "versions_of"
    /\ ret' = versions_of(_sdists, arg.catalog, arg.name)
    /\ UNCHANGED arg
    /\ UNCHANGED <<bvars, rvars>>

SolveInit ==
    /\ BuildAtRest
    /\ RepoOpened
    /\ op = "none"
    /\ arg \in [catalog : SUBSET CatalogIds, name : {"bar", "foo"}]
    /\ ret = <<>>

SpecSolve == SolveInit /\ [][solve_versions_of]_vars

(***************************************************************************)
(* usage_requirement_map: link_paths and include_paths                     *)
(***************************************************************************)
\* the keys of the maps under study, and a usage that is never a key
UsageKeys == {"a", "b"}

UnknownUsage == "zz"

Usages == UsageKeys \cup {UnknownUsage}

SeqsUpTo(S, n) == UNION {[1..k -> S] : k \in 0..n}

NoPath == <<>>

\* lm::library: include_paths, linkable_path, uses, links
Libraries(k) ==
    [include_paths : {<<<<"include", k>>>>},
     linkable_path : {NoPath, <<"lib", k>>},
     uses          : SeqsUpTo(Usages, MaxUses),
     links         : SeqsUpTo(Usages, 1)]

\* the maps from_lm_index can build: one library behind every key
UsageMaps == {m \in [UsageKeys -> UNION {Libraries(k) : k \in UsageKeys}] :
                \A k \in UsageKeys : m[k] \in Libraries(k)}

\* how a call ends: it returns paths, it throws, or it never returns
Return(paths) == [kind |-> "return", paths |-> paths]

Throw(errc) == [kind |-> "throw", errc |-> errc]

NoReturn == [kind |-> "no_return"]

\* a call nested deeper than this has one key twice among the calls it is
\* nested in; the functions keep no state, so that call repeats the nesting
\* without end and the stack is exhausted
StackDepth == Cardinality(UsageKeys) + 1

\* usage_requirement_map::get
NoLibrary == [none |-> TRUE]

get(_reqs, key) == IF key \in DOMAIN _reqs THEN _reqs[key] ELSE NoLibrary

RECURSIVE link_paths(_, _, _)
RECURSIVE link_paths_extend(_, _, _, _)
\* the two loops of link_paths: extend(ret, link_paths(dep)) for each dep
link_paths_extend(_reqs, deps, depth, acc) ==
    IF deps = <<>> THEN Return(acc)
    ELSE LET r == link_paths(_reqs, Head(deps), depth + 1)
         IN  IF r.kind # "return" THEN r
             ELSE link_paths_extend(_reqs, Tail(deps), depth, acc \o r.paths)

\* usage_requirement_map::link_paths
link_paths(_reqs, key, depth) ==
    IF depth > StackDepth THEN NoReturn
    ELSE LET req == get(_reqs, key)
         IN  IF req = NoLibrary THEN Throw("unknown_usage_name")
             ELSE LET own == IF req.linkable_path # NoPath
                             THEN <<req.linkable_path>> ELSE <<>>
                  IN  link_paths_extend(_reqs, req.uses \o req.links, depth, own)

RECURSIVE include_paths(_, _, _)
RECURSIVE include_paths_extend(_, _, _, _)
\* the loop of include_paths: extend(ret, include_paths(transitive))
include_paths_extend(_reqs, deps, depth, acc) ==
    IF deps = <<>> THEN Return(acc)
    ELSE LET r == include_paths(_reqs, Head(deps), depth + 1)
         IN  IF r.kind # "return" THEN r
             ELSE include_paths_extend(_reqs, Tail(deps), depth, acc \o r.paths)

\* usage_requirement_map::include_paths
include_paths(_reqs, usage, depth) ==
    IF depth > StackDepth THEN NoReturn
    ELSE LET lib == get(_reqs, usage)
         IN  IF lib = NoLibrary THEN Throw("unknown_usage_name")
             ELSE include_paths_extend(_reqs, lib.uses, depth, lib.include_paths)

call_link_paths ==
    /\ op = "none"
    /\ \E key \in Usages :
          /\ arg' = [arg EXCEPT !.key = key]
          /\ ret' = link_paths(arg._reqs, key, 1)
    /\ op' = "link_paths"
    /\ UNCHANGED <<bvars, rvars>>

call_include_paths ==
    /\ op = "none"
    /\ \E usage \in Usages :
          /\ arg' = [arg EXCEPT !.key = usage]
          /\ ret' = include_paths(arg._reqs, usage, 1)
    /\ op' = "include_paths"
    /\ UNCHANGED <<bvars, rvars>>

UsageInit ==
    /\ BuildAtRest
    /\ RepoAtRest
    /\ op = "none"
    /\ arg \in [_reqs : UsageMaps, key : {UnknownUsage}]
    /\ ret = <<>>

SpecUsage == UsageInit /\ [][call_link_paths \/ call_include_paths]_vars

(***************************************************************************)
(* Toolchain files: parse_toolchain_dds                                    *)
(*                                                                         *)
(* A string is a sequence of atoms (pieces of text that are never split    *)
(* further: a word, a placeholder, a blank), so that concatenation is \o   *)
(* and a placeholder inside an argument can be replaced.                   *)
(***************************************************************************)
\* std::optional
nullopt == [has_value |-> FALSE]

Some(v) == [has_value |-> TRUE, value |-> v]

\* the outcome of a step that can throw
Ok(v) == [ok |-> TRUE, v |-> v]

\* fail(context, message): std::runtime_error with the message
fail(message) == [ok |-> FALSE, what |-> message]

\* split_shell_string on the values under study: the words between blanks
RECURSIVE split_words(_, _)
split_words(value, word) ==
    IF value = <<>> THEN (IF word = <<>> THEN <<>> ELSE <<word>>)
    ELSE IF Head(value) = " "
         THEN (IF word = <<>> THEN <<>> ELSE <<word>>) \o split_words(Tail(value), <<>>)
         ELSE split_words(Tail(value), Append(word, Head(value)))

split_shell_string(value) == split_words(value, <<>>)

\* a list of arguments of one atom each
Argv(atoms) == [i \in DOMAIN atoms |-> <<atoms[i]>>]

\* replace(str, key, repl): every occurrence of the placeholder replaced
RECURSIVE replace_str(_, _, _)
replace_str(str, key, repl) ==
    IF str = <<>> THEN <<>>
    ELSE (IF Head(str) = key THEN repl ELSE <<Head(str)>>)
            \o replace_str(Tail(str), key, repl)

\* replace(strings, key, repl): the same in every string of the list
replace(strings, key, repl) ==
    [i \in DOMAIN strings |-> replace_str(strings[i], key, repl)]

\* the readers handed to lm::read, in their order: the key, the kind of
\* reader, and the local variable it writes
Readers == <<
    [key |-> "Compiler-ID",               how |-> "read_opt",      out |-> "compiler_id"],
    [key |-> "C-Compiler",                how |-> "read_opt",      out |-> "c_compiler_fpath"],
    [key |-> "C++-Compiler",              how |-> "read_opt",      out |-> "cxx_compiler_fpath"],
    [key |-> "C-Version",                 how |-> "read_opt",      out |-> "c_version"],
    [key |-> "C++-Version",               how |-> "read_opt",      out |-> "cxx_version"],
    [key |-> "Include-Template",          how |-> "read_argv",     out |-> "include_template"],
    [key |-> "External-Include-Template", how |-> "read_argv",     out |-> "include_template"],
    [key |-> "Define-Template",           how |-> "read_argv",     out |-> "define_template"],
    [key |-> "Warning-Flags",             how |-> "read_argv_acc", out |-> "warning_flags"],
    [key |-> "Flags",                     how |-> "read_argv_acc", out |-> "flags"],
    [key |-> "C-Flags",                   how |-> "read_argv_acc", out |-> "c_flags"],
    [key |-> "C++-Flags",                 how |-> "read_argv_acc", out |-> "cxx_flags"],
    [key |-> "Link-Flags",                how |-> "read_argv_acc", out |-> "link_flags"],
    [key |-> "Optimize",                  how |-> "read_bool",     out |-> "do_optimize"],
    [key |-> "Debug",                     how |-> "read_bool",     out |-> "do_debug"],
    [key |-> "Compiler-Launcher",         how |-> "read_argv",     out |-> "compile_launcher"],
    [key |-> "Deps-Mode",                 how |-> "read_opt",      out |-> "deps_mode_str"],
    [key |-> "C-Compile-File",            how |-> "read_argv",     out |-> "c_compile_file"],
    [key |-> "C++-Compile-File",          how |-> "read_argv",     out |-> "cxx_compile_file"],
    [key |-> "Create-Archive",            how |-> "read_argv",     out |-> "create_archive"],
    [key |-> "Link-Executable",           how |-> "read_argv",     out |-> "link_executable"],
    [key |-> "Archive-Prefix",            how |-> "read_opt",      out |-> "archive_prefix"],
    [key |-> "Archive-Suffix",            how |-> "read_opt",      out |-> "archive_suffix"],
    [key |-> "Object-Prefix",             how |-> "read_opt",      out |-> "obj_prefix"],
    [key |-> "Object-Suffix",             how |-> "read_opt",      out |-> "obj_suffix"],
    [key |-> "Executable-Prefix",         how |-> "read_opt",      out |-> "exe_prefix"],
    [key |-> "Executable-Suffix",         how |-> "read_opt",      out |-> "exe_suffix"] >>

\* the local variables of parse_toolchain_dds that the readers fill
Locals ==
    {"compiler_id", "c_compiler_fpath", "cxx_compiler_fpath", "c_version",
     "cxx_version", "archive_prefix", "archive_suffix", "obj_prefix",
     "obj_suffix", "exe_prefix", "exe_suffix", "deps_mode_str", "do_debug",
     "do_optimize", "include_template", "external_include_template",
     "define_template", "warning_flags", "flags", "c_flags", "cxx_flags",
     "link_flags", "c_compile_file", "cxx_compile_file", "create_archive",
     "link_executable", "compile_launcher"}

\* a reader that keeps the words of the last value only
read_argv_acc_last(out, value) ==
    Ok(Some(split_shell_string(value)))

\* read_argv_acc: the shell words of the value are appended
read_argv_acc(out, value) ==
    Ok(Some((IF out.has_value THEN out.value ELSE <<>>) \o split_shell_string(value)))

\* read_argv: a second value for the variable is an error
read_argv(key, out, value) ==
    IF out.has_value
    THEN fail(<<"More than one value provided for key", key>>)
    ELSE Ok(Some(split_shell_string(value)))

\* what lm::read_opt and lm::read_bool do with a key they have read before
OnDuplicate == {"throw", "overwrite"}

\* lm::read_opt: the value as it is
lm_read_opt(key, out, value, dup) ==
    IF out.has_value /\ dup = "throw"
    THEN fail(<<"Duplicated key", key>>)
    ELSE Ok(Some(value))

\* lm::read_bool: True or False
lm_read_bool(key, out, value, dup) ==
    IF out.has_value /\ dup = "throw" THEN fail(<<"Duplicated key", key>>)
    ELSE IF value = <<"True">> THEN Ok(Some(TRUE))
    ELSE IF value = <<"False">> THEN Ok(Some(FALSE))
    ELSE fail(<<"Invalid boolean", key>>)

\* one pair goes to the first reader with its key; lm_reject_dym throws for
\* a key that no reader has
read_pair(locals, pair, dup) ==
    LET hits == {i \in DOMAIN Readers : Readers[i].key = pair.key}
    IN  IF hits = {} THEN fail(<<"Unknown key", pair.key>>)
        ELSE LET r   == Readers[CHOOSE i \in hits : \A j \in hits : i <= j]
                 out == locals[r.out]
                 new == CASE r.how = "read_opt"      -> lm_read_opt(pair.key, out, pair.value, dup)
                          [] r.how = "read_bool"     -> lm_read_bool(pair.key, out, pair.value, dup)
                          [] r.how = "read_argv"     -> read_argv(pair.key, out, pair.value)
                          [] r.how = "read_argv_acc" -> read_argv_acc(out, pair.value)
             IN  IF ~new.ok THEN new
                 ELSE Ok([locals EXCEPT ![r.out] = new.v])

\* lm::read: the pairs in their order, until a reader throws
RECURSIVE lm_read(_, _, _)
lm_read(pairs, locals, dup) ==
    IF pairs = <<>> THEN Ok(locals)
    ELSE LET r == read_pair(locals, Head(pairs), dup)
         IN  IF ~r.ok THEN r ELSE lm_read(Tail(pairs), r.v, dup)
\* a value under a name of its own: F applied to v
With(v, F(_)) == F(v)

\* the first step that threw, or all the values
RECURSIVE first_failure(_)
first_failure(steps) ==
    IF steps = <<>> THEN Ok(<<>>)
    ELSE IF ~Head(steps).ok THEN Head(steps)
    ELSE first_failure(Tail(steps))

is_msvc(l) == l.compiler_id = Some(<<"MSVC">>)

is_gnu(l) == l.compiler_id = Some(<<"GNU">>)

is_clang(l) == l.compiler_id = Some(<<"Clang">>)

is_gnu_like(l) == is_gnu(l) \/ is_clang(l)

value_or(opt, default) == IF opt.has_value THEN opt.value ELSE default

\* the compiler_id_e lambda
compiler_id_e(l) ==
    IF ~l.compiler_id.has_value
        \/ l.compiler_id.value \in {<<"MSVC">>, <<"GNU">>, <<"Clang">>}
    THEN Ok(l.compiler_id)
    ELSE fail(<<"Unknown Compiler-ID">>)

\* the deps_mode lambda
deps_mode(l) ==
    IF ~l.deps_mode_str.has_value
    THEN Ok(IF is_gnu_like(l) THEN "gnu" ELSE IF is_msvc(l) THEN "msvc" ELSE "none")
    ELSE CASE l.deps_mode_str.value = <<"GNU">>  -> Ok("gnu")
           [] l.deps_mode_str.value = <<"MSVC">> -> Ok("msvc")
           [] l.deps_mode_str.value = <<"None">> -> Ok("none")
           [] OTHER -> fail(<<"Unknown Deps-Mode">>)

c_version_e(l) ==
    IF ~l.c_version.has_value
        \/ l.c_version.value \in {<<"C89">>, <<"C99">>, <<"C11">>, <<"C18">>}
    THEN Ok(l.c_version)
    ELSE fail(<<"Unknown C-Version">>)

cxx_version_e(l) ==
    IF ~l.cxx_version.has_value
        \/ l.cxx_version.value \in {<<"C++98">>, <<"C++03">>, <<"C++11">>, <<"C++14">>,
                                     <<"C++17">>, <<"C++20">>}
    THEN Ok(l.cxx_version)
    ELSE fail(<<"Unknown C++-Version">>)

\* the get_compiler lambda
get_compiler(l, lang) ==
    IF lang = "cxx" /\ l.cxx_compiler_fpath.has_value THEN Ok(l.cxx_compiler_fpath.value)
    ELSE IF lang = "c" /\ l.c_compiler_fpath.has_value THEN Ok(l.c_compiler_fpath.value)
    ELSE IF ~l.compiler_id.has_value
         THEN fail(<<"Unable to determine what compiler to use.">>)
    ELSE IF is_gnu(l) THEN Ok(IF lang = "cxx" THEN <<"g++">> ELSE <<"gcc">>)
    ELSE IF is_clang(l) THEN Ok(IF lang = "cxx" THEN <<"clang++">> ELSE <<"clang">>)
    ELSE Ok(<<"cl.exe">>)

\* get_c_version_flags, with c_version_flag_table
get_c_version_flags(l) ==
    LET c_version == l.c_version.value
    IN  IF ~l.compiler_id.has_value
        THEN fail(<<"Unable to deduce flags for 'C-Version' without setting 'Compiler-ID'">>)
        ELSE IF is_msvc(l) THEN Ok(<<>>)
        ELSE CASE c_version = <<"C89">> -> Ok(Argv(<<"-std=c89">>))
               [] c_version = <<"C99">> -> Ok(Argv(<<"-std=c99">>))
               [] c_version = <<"C11">> -> Ok(Argv(<<"-std=c11">>))
               [] c_version = <<"C18">> -> Ok(Argv(<<"-std=c18">>))
               [] OTHER -> Ok(<<>>)

\* get_cxx_version_flags, with cxx_version_flag_table
get_cxx_version_flags(l) ==
    LET cxx_version == l.cxx_version.value
    IN  IF ~l.compiler_id.has_value
        THEN fail(<<"Unable to deduce flags for 'C++-Version' without setting 'Compiler-ID'">>)
        ELSE IF is_msvc(l)
        THEN CASE cxx_version = <<"C++14">> -> Ok(Argv(<<"/std:c++14">>))
               [] cxx_version = <<"C++17">> -> Ok(Argv(<<"/std:c++17">>))
               [] cxx_version = <<"C++20">> -> Ok(Argv(<<"/std:c++latest">>))
               [] OTHER -> Ok(<<>>)
        ELSE CASE cxx_version = <<"C++98">> -> Ok(Argv(<<"-std=c++98">>))
               [] cxx_version = <<"C++03">> -> Ok(Argv(<<"-std=c++03">>))
               [] cxx_version = <<"C++11">> -> Ok(Argv(<<"-std=c++11">>))
               [] cxx_version = <<"C++14">> -> Ok(Argv(<<"-std=c++14">>))
               [] cxx_version = <<"C++17">> -> Ok(Argv(<<"-std=c++17">>))
               [] cxx_version = <<"C++20">> -> Ok(Argv(<<"-std=c++20">>))
               [] OTHER -> Ok(<<>>)

\* the get_link_flags lambda
get_link_flags(l) ==
    (IF is_msvc(l)
     THEN (IF value_or(l.do_optimize, FALSE) THEN Argv(<<"/O2">>) ELSE <<>>)
            \o (IF value_or(l.do_debug, FALSE) THEN Argv(<<"/Z7", "/DEBUG", "/MTd">>)
                ELSE Argv(<<"/MT">>))
     ELSE IF is_gnu_like(l)
     THEN (IF value_or(l.do_optimize, FALSE) THEN Argv(<<"-O2">>) ELSE <<>>)
            \o (IF value_or(l.do_debug, FALSE) THEN Argv(<<"-g">>) ELSE <<>>)
     ELSE <<>>)
        \o value_or(l.link_flags, <<>>)

\* the get_flags lambda
get_flags(l, lang) ==
    LET version == IF lang = "cxx"
                   THEN (IF l.cxx_version.has_value THEN get_cxx_version_flags(l) ELSE Ok(<<>>))
                   ELSE (IF l.c_version.has_value THEN get_c_version_flags(l) ELSE Ok(<<>>))
        mine    == IF lang = "cxx" THEN value_or(l.cxx_flags, <<>>)
                   ELSE value_or(l.c_flags, <<>>)
        base    == IF is_msvc(l)
                   THEN (IF value_or(l.do_optimize, FALSE) THEN Argv(<<"/O2">>) ELSE <<>>)
                          \o (IF value_or(l.do_debug, FALSE)
                              THEN Argv(<<"/Z7", "/DEBUG", "/MTd">>) ELSE Argv(<<"/MT">>))
                          \o (IF lang = "cxx" THEN Argv(<<"/EHsc">>) ELSE <<>>)
                          \o Argv(<<"/nologo", "/permissive-", "<FLAGS>", "/c", "<IN>">>)
                          \o <<<<"/Fo", "<OUT>">>>>
                   ELSE IF is_gnu_like(l)
                   THEN (IF value_or(l.do_optimize, FALSE) THEN Argv(<<"-O2">>) ELSE <<>>)
                          \o (IF value_or(l.do_debug, FALSE) THEN Argv(<<"-g">>) ELSE <<>>)
                          \o Argv(<<"-fPIC", "-fdiagnostics-color", "-pthread",
                                    "<FLAGS>", "-c", "<IN>">>)
                          \o <<<<"-o", "<OUT>">>>>
                   ELSE <<>>
    IN  IF ~version.ok THEN version
        ELSE Ok(mine \o version.v \o base \o value_or(l.flags, <<>>))

\* tc.c_compile and tc.cxx_compile
compile(l, lang) ==
    LET given == IF lang = "cxx" THEN l.cxx_compile_file ELSE l.c_compile_file
        comp  == get_compiler(l, lang)
        fl    == get_flags(l, lang)
    IN  IF given.has_value THEN Ok(given.value)
        ELSE IF ~comp.ok THEN comp
        ELSE IF ~fl.ok THEN fl
        ELSE Ok(value_or(l.compile_launcher, <<>>) \o <<comp.v>> \o fl.v)

\* tc.include_template
include_template(l) ==
    IF l.include_template.has_value THEN Ok(l.include_template.value)
    ELSE IF ~l.compiler_id.has_value
         THEN fail(<<"Cannot deduce 'Include-Template' without 'Compiler-ID'">>)
    ELSE IF is_gnu_like(l) THEN Ok(Argv(<<"-I", "<PATH>">>))
    ELSE Ok(Argv(<<"/I", "<PATH>">>))

\* tc.external_include_template, given tc.include_template
external_include_template(l, tc_include_template) ==
    IF l.external_include_template.has_value THEN Ok(l.external_include_template.value)
    ELSE IF ~l.compiler_id.has_value THEN Ok(tc_include_template)
    ELSE IF is_gnu_like(l) THEN Ok(Argv(<<"-isystem", "<PATH>">>))
    ELSE Ok(Argv(<<"/I", "<PATH>">>))

\* tc.define_template
define_template(l) ==
    IF l.define_template.has_value THEN Ok(l.define_template.value)
    ELSE IF ~l.compiler_id.has_value
         THEN fail(<<"Cannot deduce 'Define-Template' without 'Compiler-ID'">>)
    ELSE IF is_gnu_like(l) THEN Ok(Argv(<<"-D", "<DEF>">>))
    ELSE Ok(Argv(<<"/D", "<DEF>">>))

\* an archive suffix that is deduced as for GNU when no compiler id is given
archive_suffix_unchecked(l) ==
    IF l.archive_suffix.has_value THEN Ok(l.archive_suffix.value)
    ELSE IF is_msvc(l) THEN Ok(<<".lib">>)
    ELSE Ok(<<".a">>)

\* tc.archive_suffix
archive_suffix(l) ==
    IF l.archive_suffix.has_value THEN Ok(l.archive_suffix.value)
    ELSE IF ~l.compiler_id.has_value
         THEN fail(<<"Cannot deduce library file extension without Compiler-ID">>)
    ELSE IF is_gnu_like(l) THEN Ok(<<".a">>)
    ELSE Ok(<<".lib">>)

\* tc.object_suffix
object_suffix(l) ==
    IF l.obj_suffix.has_value THEN Ok(l.obj_suffix.value)
    ELSE IF ~l.compiler_id.has_value
         THEN fail(<<"Cannot deduce object file extension without Compiler-ID">>)
    ELSE IF is_gnu_like(l) THEN Ok(<<".o">>)
    ELSE Ok(<<".obj">>)

\* tc.exe_suffix: the default depends on the platform of the build
exe_suffix(l, _WIN32) ==
    IF l.exe_suffix.has_value THEN Ok(l.exe_suffix.value)
    ELSE IF _WIN32 THEN Ok(<<".exe">>)
    ELSE Ok(<<>>)

\* tc.warning_flags
warning_flags(l) ==
    IF l.warning_flags.has_value THEN Ok(l.warning_flags.value)
    ELSE IF ~l.compiler_id.has_value THEN Ok(<<>>)
    ELSE IF is_msvc(l) THEN Ok(Argv(<<"/W4">>))
    ELSE Ok(Argv(<<"-Wall", "-Wextra", "-Wpedantic", "-Wconversion">>))

\* tc.link_archive
link_archive(l) ==
    IF l.create_archive.has_value THEN Ok(l.create_archive.value)
    ELSE IF ~l.compiler_id.has_value
         THEN fail(<<"Unable to deduce archive creation rules without a Compiler-ID">>)
    ELSE IF is_msvc(l)
         THEN Ok(Argv(<<"lib", "/nologo">>) \o <<<<"/OUT:", "<OUT>">>>> \o Argv(<<"<IN>">>))
    ELSE Ok(Argv(<<"ar", "rcs", "<OUT>", "<IN>">>))

\* tc.link_exe
link_exe(l) ==
    IF l.link_executable.has_value THEN Ok(l.link_executable.value)
    ELSE IF ~l.compiler_id.has_value
         THEN fail(<<"Unable to deduce how to link executables without a Compiler-ID">>)
    ELSE LET comp == get_compiler(l, "cxx")
         IN  IF ~comp.ok THEN comp
             ELSE IF is_msvc(l)
             THEN Ok(<<comp.v>> \o Argv(<<"/nologo", "/EHsc", "<IN>">>)
                        \o <<<<"/Fe", "<OUT>">>>> \o get_link_flags(l))
             ELSE IF is_gnu(l)
             THEN Ok(<<comp.v>> \o Argv(<<"-fPIC", "-fdiagnostics-color", "<IN>",
                                          "-pthread", "-lstdc++fs">>)
                        \o <<<<"-o", "<OUT>">>>> \o get_link_flags(l))
             ELSE Ok(<<comp.v>> \o Argv(<<"-fPIC", "-fdiagnostics-color", "<IN>",
                                          "-pthread">>)
                        \o <<<<"-o", "<OUT>">>>> \o get_link_flags(l))

\* toolchain::realize: the prepared values become the toolchain's fields
realize(prep) ==
    [_c_compile           |-> prep.c_compile,
     _cxx_compile         |-> prep.cxx_compile,
     _inc_template        |-> prep.include_template,
     _extern_inc_template |-> prep.external_include_template,
     _def_template        |-> prep.define_template,
     _link_archive        |-> prep.link_archive,
     _link_exe            |-> prep.link_exe,
     _warning_flags       |-> prep.warning_flags,
     _archive_prefix      |-> prep.archive_prefix,
     _archive_suffix      |-> prep.archive_suffix,
     _object_prefix       |-> prep.object_prefix,
     _object_suffix       |-> prep.object_suffix,
     _exe_prefix          |-> prep.exe_prefix,
     _exe_suffix          |-> prep.exe_suffix,
     _deps_mode           |-> prep.deps_mode]

\* parse_toolchain_dds after lm::read: every value is given or deduced, in
\* the order of the source; the first failure is thrown
deduce(l, _WIN32) ==
    LET inc == include_template(l)
    IN  With(<<compiler_id_e(l), deps_mode(l), c_version_e(l), cxx_version_e(l),
               compile(l, "c"), compile(l, "cxx"),
               inc,
               IF inc.ok THEN external_include_template(l, inc.v) ELSE inc,
               define_template(l), archive_suffix(l), object_suffix(l),
               exe_suffix(l, _WIN32), warning_flags(l), link_archive(l), link_exe(l)>>,
             LAMBDA steps :
                IF ~first_failure(steps).ok THEN first_failure(steps)
                ELSE Ok(realize(
                        [c_compile                 |-> steps[5].v,
                         cxx_compile               |-> steps[6].v,
                         include_template          |-> steps[7].v,
                         external_include_template |-> steps[8].v,
                         define_template           |-> steps[9].v,
                         link_archive              |-> steps[14].v,
                         link_exe                  |-> steps[15].v,
                         warning_flags             |-> steps[13].v,
                         archive_prefix            |-> value_or(l.archive_prefix, <<"lib">>),
                         archive_suffix            |-> steps[10].v,
                         object_prefix             |-> value_or(l.obj_prefix, <<>>),
                         object_suffix             |-> steps[11].v,
                         exe_prefix                |-> value_or(l.exe_prefix, <<>>),
                         exe_suffix                |-> steps[12].v,
                         deps_mode                 |-> steps[2].v])))

\* parse_toolchain_dds(pairs)
parse_toolchain_dds(pairs, dup, _WIN32) ==
    With(lm_read(pairs, [n \in Locals |-> nullopt], dup),
         LAMBDA read :
            IF ~read.ok THEN [kind |-> "error", what |-> read.what]
            ELSE With(deduce(read.v, _WIN32),
                      LAMBDA tc :
                         IF ~tc.ok THEN [kind |-> "error", what |-> tc.what]
                         ELSE [kind |-> "toolchain", tc |-> tc.v, read |-> read.v]))
(***************************************************************************)
(* toolchain::create_compile_command                                       *)
(***************************************************************************)
\* fs::path as its directory, stem and extension, each a string
string(p) == p.dir \o p.stem \o p.extension

\* an extension that is always the depfile's
replace_extension_d(p, ext) == [p EXCEPT !.extension = <<".d">>]

\* fs::path::replace_extension
replace_extension(p, ext) == [p EXCEPT !.extension = ext]

include_args(tc, p) == replace(tc._inc_template, "<PATH>", string(p))

external_include_args(tc, p) == replace(tc._extern_inc_template, "<PATH>", string(p))

\* definition_args replacing the placeholder of the include templates
definition_args_path(tc, s) == replace(tc._def_template, "<PATH>", s)

definition_args(tc, s) == replace(tc._def_template, "<DEF>", s)

\* extend(flags, f(x)) for every x of the list
RECURSIVE extend_each(_, _, _)
extend_each(tc, how, list) ==
    IF list = <<>> THEN <<>>
    ELSE (CASE how = "include"  -> include_args(tc, Head(list))
            [] how = "external" -> external_include_args(tc, Head(list))
            [] how = "define"   -> definition_args(tc, Head(list)))
            \o extend_each(tc, how, Tail(list))

\* the loop over the command template: <FLAGS> is replaced by the flags,
\* <IN> and <OUT> inside the other arguments by the paths
RECURSIVE fill_template(_, _, _)
fill_template(cmd_template, flags, spec) ==
    IF cmd_template = <<>> THEN <<>>
    ELSE LET a == Head(cmd_template)
         IN  (IF a = <<"<FLAGS>">> THEN flags
              ELSE <<replace_str(replace_str(a, "<IN>", string(spec.source_path)),
                                 "<OUT>", string(spec.out_path))>>)
                \o fill_template(Tail(cmd_template), flags, spec)

create_compile_command(tc, spec) ==
    LET lang == IF spec.lang # "automatic" THEN spec.lang
                ELSE IF spec.source_path.extension \in {<<".c">>, <<".C">>} THEN "c"
                ELSE "cxx"
        cmd_template == IF lang = "c" THEN tc._c_compile ELSE tc._cxx_compile
        gnu_depfile_path ==
            IF tc._deps_mode = "gnu"
            THEN Some(replace_extension(spec.out_path, spec.out_path.extension \o <<".d">>))
            ELSE nullopt
        flags == extend_each(tc, "include", spec.include_dirs)
                    \o extend_each(tc, "external", spec.external_include_dirs)
                    \o extend_each(tc, "define", spec.definitions)
                    \o (IF spec.enable_warnings THEN tc._warning_flags ELSE <<>>)
                    \o (IF tc._deps_mode = "gnu"
                        THEN <<<<"-MD">>, <<"-MF">>, string(gnu_depfile_path.value),
                               <<"-MT">>, string(spec.out_path)>>
                        ELSE IF tc._deps_mode = "msvc" THEN <<<<"/showIncludes">>>>
                        ELSE <<>>)
    IN  [command |-> fill_template(cmd_template, flags, spec),
         gnu_depfile_path |-> gnu_depfile_path]

(***************************************************************************)
(* Specification of the toolchain: a toolchain file is parsed and compile  *)
(* commands are made from the toolchain                                    *)
(***************************************************************************)
Pair(key, value) == [key |-> key, value |-> value]

RECURSIVE SubSeqs(_)
\* the lists that keep some of the elements of s, in their order
SubSeqs(s) ==
    IF s = <<>> THEN {<<>>}
    ELSE LET rest == SubSeqs(Tail(s))
         IN  rest \cup {<<Head(s)>> \o r : r \in rest}

\* the options that replace a deduced default, with a value of their own
DefaultOptions == <<
    Pair("C-Compiler", <<"mycc">>),
    Pair("C++-Compiler", <<"mycxx">>),
    Pair("Include-Template", <<"-J", " ", "<PATH>">>),
    Pair("External-Include-Template", <<"-E", " ", "<PATH>">>),
    Pair("Define-Template", <<"-X", " ", "<DEF>">>),
    Pair("Warning-Flags", <<"-Wmine">>),
    Pair("Create-Archive", <<"myar", " ", "<OUT>", " ", "<IN>">>),
    Pair("Link-Executable", <<"myld", " ", "<IN>", " ", "-o", " ", "<OUT>">>),
    Pair("Archive-Suffix", <<".ar">>),
    Pair("Object-Suffix", <<".ob">>),
    Pair("Executable-Suffix", <<".bin">>) >>

\* the pairs of the toolchain files in which options occur several times
RepeatedOptions ==
    {Pair("Warning-Flags", <<"-W1", " ", "-W2">>),
     Pair("Warning-Flags", <<"-W3">>),
     Pair("Flags", <<"-f1", " ", "-f2">>),
     Pair("Flags", <<"-f3">>),
     Pair("C-Flags", <<"-c1">>),
     Pair("C++-Flags", <<"-x1">>),
     Pair("Link-Flags", <<"-l1">>),
     Pair("Include-Template", <<"-J", " ", "<PATH>">>),
     Pair("External-Include-Template", <<"-E", " ", "<PATH>">>),
     Pair("Define-Template", <<"-X", " ", "<DEF>">>),
     Pair("Compiler-Launcher", <<"ccache">>),
     Pair("C-Compile-File", <<"mycc", " ", "<FLAGS>", " ", "<IN>">>),
     Pair("C++-Compile-File", <<"mycxx", " ", "<FLAGS>", " ", "<IN>">>),
     Pair("Create-Archive", <<"myar", " ", "<OUT>", " ", "<IN>">>),
     Pair("Link-Executable", <<"myld", " ", "<IN>">>),
     Pair("Include-Templat", <<"-I">>)}

\* the toolchain files under study: files that give a compiler id or not
\* and some of the options; files that set the language version and the
\* build mode; files in which options occur several times
ToolchainFiles ==
    LET CompilerIdPairs ==
            {<<>>} \cup {<<Pair("Compiler-ID", id)>> :
                            id \in {<<"MSVC">>, <<"GNU">>, <<"Clang">>, <<"XL">>}}
    IN
    {c \o o : c \in CompilerIdPairs, o \in SubSeqs(DefaultOptions)}
    \cup
    {c \o v \o d \o o :
        c \in CompilerIdPairs,
        v \in {<<>>, <<Pair("C++-Version", <<"C++17">>)>>, <<Pair("C-Version", <<"C11">>)>>,
               <<Pair("C++-Version", <<"C++23">>)>>},
        d \in {<<>>, <<Pair("Debug", <<"True">>)>>, <<Pair("Debug", <<"False">>)>>,
               <<Pair("Deps-Mode", <<"None">>)>>, <<Pair("Deps-Mode", <<"MSVC">>)>>},
        o \in {<<>>, <<Pair("Optimize", <<"True">>)>>,
               <<Pair("Compiler-Launcher", <<"ccache">>)>>}}
    \cup
    {<<Pair("Compiler-ID", <<"GNU">>)>> \o r : r \in SeqsUpTo(RepeatedOptions, MaxPairs)}

Path(dir, stem, extension) == [dir |-> dir, stem |-> stem, extension |-> extension]

\* the compile_file_specs under study
CompileSpecs ==
    {[lang |-> "automatic",
      source_path |-> Path(<<"src/">>, <<"a">>, <<".cpp">>),
      out_path |-> Path(<<"build/">>, <<"a">>, <<".o">>),
      include_dirs |-> <<>>, external_include_dirs |-> <<>>,
      definitions |-> <<>>, enable_warnings |-> FALSE],
     [lang |-> "automatic",
      source_path |-> Path(<<"src/">>, <<"a">>, <<".cpp">>),
      out_path |-> Path(<<"build/">>, <<"a">>, <<".o">>),
      include_dirs |-> <<Path(<<>>, <<"inc">>, <<>>)>>,
      external_include_dirs |-> <<Path(<<>>, <<"ext">>, <<>>)>>,
      definitions |-> <<<<"DEF=1">>>>, enable_warnings |-> TRUE],
     [lang |-> "automatic",
      source_path |-> Path(<<"src/">>, <<"b">>, <<".c">>),
      out_path |-> Path(<<"build/">>, <<"b">>, <<>>),
      include_dirs |-> <<Path(<<>>, <<"inc">>, <<>>)>>,
      external_include_dirs |-> <<>>,
      definitions |-> <<>>, enable_warnings |-> FALSE],
     [lang |-> "c",
      source_path |-> Path(<<"src/">>, <<"d">>, <<".cpp">>),
      out_path |-> Path(<<"build/">>, <<"d">>, <<".obj">>),
      include_dirs |-> <<Path(<<>>, <<"inc">>, <<>>), Path(<<"/opt/">>, <<"inc2">>, <<>>)>>,
      external_include_dirs |-> <<>>,
      definitions |-> <<<<"A">>, <<"B=2">>>>, enable_warnings |-> TRUE],
     [lang |-> "cxx",
      source_path |-> Path(<<"src/">>, <<"e">>, <<".c">>),
      out_path |-> Path(<<"build/">>, <<"e">>, <<".o">>),
      include_dirs |-> <<>>,
      external_include_dirs |-> <<Path(<<>>, <<"ext">>, <<>>), Path(<<>>, <<"ext2">>, <<>>)>>,
      definitions |-> <<>>, enable_warnings |-> FALSE],
     [lang |-> "automatic",
      source_path |-> Path(<<"src/">>, <<"f">>, <<".C">>),
      out_path |-> Path(<<"build/">>, <<"f">>, <<".o">>),
      include_dirs |-> <<>>, external_include_dirs |-> <<>>,
      definitions |-> <<<<"NDEBUG">>>>, enable_warnings |-> TRUE]}

\* the toolchain file is parsed
call_parse_toolchain_dds ==
    /\ op = "none"
    /\ op' = "parse_toolchain_dds"
    /\ \E dup \in OnDuplicate, _WIN32 \in BOOLEAN :
          ret' = parse_toolchain_dds(arg.pairs, dup, _WIN32)
    /\ UNCHANGED arg
    /\ UNCHANGED <<bvars, rvars>>

\* a compile command is made from the parsed toolchain
call_create_compile_command ==
    /\ op = "parse_toolchain_dds"
    /\ ret.kind = "toolchain"
    /\ op' = "create_compile_command"
    /\ \E spec \in CompileSpecs :
          LET info == create_compile_command(ret.tc, spec)
          IN  ret' = [kind |-> "command", tc |-> ret.tc, read |-> ret.read, spec |-> spec,
                      command |-> info.command,
                      gnu_depfile_path |-> info.gnu_depfile_path]
    /\ UNCHANGED arg
    /\ UNCHANGED <<bvars, rvars>>

ToolchainInit ==
    /\ BuildAtRest
    /\ RepoAtRest
    /\ op = "none"
    /\ arg \in [pairs : ToolchainFiles]
    /\ ret = <<>>

SpecToolchain ==
    ToolchainInit /\ [][call_parse_toolchain_dds \/ call_create_compile_command]_vars

(***************************************************************************)
(* toolchain::get_builtin: an id is a string of characters                 *)
(***************************************************************************)
\* the pieces the ids under study are made of, as their characters
IdPieces ==
    [debug  |-> <<"d", "e", "b", "u", "g", ":">>,
     ccache |-> <<"c", "c", "a", "c", "h", "e", ":">>,
     cxx11  |-> <<"c", "+", "+", "1", "1", ":">>,
     cxx17  |-> <<"c", "+", "+", "1", "7", ":">>,
     gcc    |-> <<"g", "c", "c">>,
     clang  |-> <<"c", "l", "a", "n", "g">>,
     msvc   |-> <<"m", "s", "v", "c">>,
     v7     |-> <<"-", "7">>,
     v13    |-> <<"-", "1", "3">>,
     v17    |-> <<"-", "1", "7">>]

\* the id spelled by a list of pieces
RECURSIVE Spell(_)
Spell(pieces) ==
    IF pieces = <<>> THEN <<>> ELSE IdPieces[Head(pieces)] \o Spell(Tail(pieces))

starts_with(s, prefix) ==
    /\ Len(s) >= Len(prefix)
    /\ SubSeq(s, 1, Len(prefix)) = prefix

ends_with(s, suffix) ==
    /\ Len(s) >= Len(suffix)
    /\ SubSeq(s, Len(s) - Len(suffix) + 1, Len(s)) = suffix

substr(s, pos) == SubSeq(s, pos + 1, Len(s))

\* the prefixes get_builtin tests one after the other, each with the line
\* it adds to tc_content
BuiltinTags == <<
    [str |-> <<"d", "e", "b", "u", "g", ":">>,      line |-> Pair("Debug", <<"True">>)],
    [str |-> <<"c", "c", "a", "c", "h", "e", ":">>, line |-> Pair("Compiler-Launcher", <<"ccache">>)],
    [str |-> <<"c", "+", "+", "9", "8", ":">>,      line |-> Pair("C++-Version", <<"C++98">>)],
    [str |-> <<"c", "+", "+", "0", "3", ":">>,      line |-> Pair("C++-Version", <<"C++03">>)],
    [str |-> <<"c", "+", "+", "1", "1", ":">>,      line |-> Pair("C++-Version", <<"C++11">>)],
    [str |-> <<"c", "+", "+", "1", "4", ":">>,      line |-> Pair("C++-Version", <<"C++14">>)],
    [str |-> <<"c", "+", "+", "1", "7", ":">>,      line |-> Pair("C++-Version", <<"C++17">>)],
    [str |-> <<"c", "+", "+", "2", "0", ":">>,      line |-> Pair("C++-Version", <<"C++20">>)] >>

\* the chain of if (starts_with(tc_id, str)) statements
RECURSIVE strip_tags(_, _, _)
strip_tags(tags, tc_id, tc_content) ==
    IF tags = <<>> THEN [tc_id |-> tc_id, tc_content |-> tc_content]
    ELSE IF starts_with(tc_id, Head(tags).str)
         THEN strip_tags(Tail(tags), substr(tc_id, Len(Head(tags).str)),
                         Append(tc_content, Head(tags).line))
         ELSE strip_tags(Tail(tags), tc_id, tc_content)

\* the compiler_suffix lambda: the first suffix, in the order of the tests,
\* that the id ends with
compiler_suffix(tc_id) ==
    LET CompilerSuffixes == <<
            <<"-", "7">>, <<"-", "8">>, <<"-", "9">>, <<"-", "1", "0">>, <<"-", "1", "1">>,
            <<"-", "1", "2">>, <<"-", "1", "3">> >>
        hits == {i \in DOMAIN CompilerSuffixes : ends_with(tc_id, CompilerSuffixes[i])}
    IN  IF hits = {} THEN <<>>
        ELSE CompilerSuffixes[CHOOSE i \in hits : \A j \in hits : i <= j]

\* the opt_triple lambda
opt_triple(tc_id) ==
    IF starts_with(tc_id, <<"g", "c", "c">>) \/ starts_with(tc_id, <<"c", "l", "a", "n", "g">>)
    THEN LET is_gcc == starts_with(tc_id, <<"g", "c", "c">>)
             c_compiler_base   == IF is_gcc THEN <<"g", "c", "c">> ELSE <<"c", "l", "a", "n", "g">>
             cxx_compiler_base == IF is_gcc THEN <<"g", "+", "+">>
                                  ELSE <<"c", "l", "a", "n", "g", "+", "+">>
             c_compiler_name   == c_compiler_base \o compiler_suffix(tc_id)
         IN  IF c_compiler_name # tc_id THEN nullopt
             ELSE Some([c   |-> c_compiler_name,
                        cxx |-> cxx_compiler_base \o compiler_suffix(tc_id),
                        id  |-> IF is_gcc THEN <<"GNU">> ELSE <<"Clang">>])
    ELSE IF tc_id = <<"m", "s", "v", "c">>
    THEN Some([c |-> <<"cl.exe">>, cxx |-> <<"cl.exe">>, id |-> <<"MSVC">>])
    ELSE nullopt

\* toolchain::get_builtin: noexcept, so an exception of the parser ends the
\* program
get_builtin(id, dup, _WIN32) ==
    LET st     == strip_tags(BuiltinTags, id, <<>>)
        triple == opt_triple(st.tc_id)
    IN  IF ~triple.has_value THEN [kind |-> "nullopt"]
        ELSE LET tc_content == st.tc_content
                                  \o <<Pair("C-Compiler", triple.value.c),
                                       Pair("C++-Compiler", triple.value.cxx),
                                       Pair("Compiler-ID", triple.value.id)>>
             IN  With(parse_toolchain_dds(tc_content, dup, _WIN32),
                      LAMBDA parsed :
                         IF parsed.kind = "error" THEN [kind |-> "terminate"]
                         ELSE [kind |-> "toolchain", tc |-> parsed.tc,
                               tc_content |-> tc_content])

call_get_builtin ==
    /\ op = "none"
    /\ op' = "get_builtin"
    /\ \E dup \in OnDuplicate, _WIN32 \in BOOLEAN :
          ret' = get_builtin(Spell(arg.pieces), dup, _WIN32)
    /\ UNCHANGED arg
    /\ UNCHANGED <<bvars, rvars>>

BuiltinInit ==
    /\ BuildAtRest
    /\ RepoAtRest
    /\ op = "none"
    /\ arg \in [pieces : SeqsUpTo(DOMAIN IdPieces, MaxIdPieces)]
    /\ ret = <<>>

SpecBuiltin == BuiltinInit /\ [][call_get_builtin]_vars

(***************************************************************************)
(* create_archive_plan::archive_file_path: the archive pass names the      *)
(* static archive of a library after the toolchain in use                  *)
(***************************************************************************)
\* fmt::format("{}{}{}", "lib", name, tc.archive_suffix())
archive_file_path(ar_plan, tc) == <<"lib">> \o ar_plan.name \o tc._archive_suffix

\* the toolchain files under study: a compiler id or none, an archive
\* prefix or none, an archive suffix or none
ArchiveToolchainFiles ==
    {c \o p \o s :
        c \in {<<>>} \cup {<<Pair("Compiler-ID", id)>> :
                              id \in {<<"MSVC">>, <<"GNU">>, <<"Clang">>}},
        p \in {<<>>} \cup {<<Pair("Archive-Prefix", v)>> :
                              v \in {<<"lib">>, <<"my">>, <<"ar_">>}},
        s \in {<<>>, <<Pair("Archive-Suffix", <<".ar">>)>>, <<Pair("Archive-Suffix", <<".lib">>)>>}}

\* the archive lambda of archive_all reaches archive(): the file is named
call_archive_file_path ==
    /\ op = "parse_toolchain_dds"
    /\ ret.kind = "toolchain"
    /\ op' = "archive_file_path"
    /\ ret' = [kind  |-> "path", tc |-> ret.tc, read |-> ret.read,
               fname |-> archive_file_path(arg.ar_plan, ret.tc)]
    /\ UNCHANGED arg
    /\ UNCHANGED <<bvars, rvars>>

ArchiveInit ==
    /\ BuildAtRest
    /\ RepoAtRest
    /\ op = "none"
    /\ arg \in [pairs : ArchiveToolchainFiles,
                ar_plan : [name : {<<"foo">>, <<"bar">>, <<"libfoo">>}]]
    /\ ret = <<>>

SpecArchive ==
    ArchiveInit /\ [][call_parse_toolchain_dds \/ call_archive_file_path]_vars

(***************************************************************************)
(* Properties of the build executor                                        *)
(***************************************************************************)
CompileItems == Range(comps(create_libraries))

Running(w) == threads[w].st \in {"run", "caught"}

\* C1: once an exception is recorded in the shared list no worker takes a
\* further item from the cursor, and an item that was taken keeps running
\* until its function ends: it is never dropped, and when parallel_run
\* returns every taken item has ended.
C1_FailFast ==
    /\ [][/\ exceptions # <<>> => (taken' = taken /\ iter' = iter)
          /\ \A w \in Workers :
                threads[w].st = "run" =>
                    \/ threads'[w] = threads[w]
                    \/ threads[w].item \in finished']_vars
    /\ [](mpc = "ret" => Range(taken) \subseteq finished)

\* C1 witness: parallel_run returned after a failure with items left on the
\* cursor, and an item taken after the failing one ran to completion
C1_Witness ==
    /\ mpc = "ret"
    /\ exceptions # <<>>
    /\ iter <= Len(rng)
    /\ \E i, j \in 1..Len(taken) :
        /\ i < j
        /\ taken[i] = exceptions[1]
        /\ taken[j] \in finished \ fn_failed

\* C2: compile_all raises exactly one failure when at least one compile job
\* failed, however many failed, and none when no job failed; the failure is
\* raised only after every taken job has ended and every worker has exited,
\* and no archive job is ever taken after it.
C2_OneCompileFailure ==
    /\ Len(raised) <= 1
    /\ pass \in {"failed", "compiled", "archive", "archived"} =>
          /\ (fn_failed \cap CompileItems # {}) <=> (raised = <<"Compilation failed.">>)
          /\ (fn_failed \cap CompileItems # {}) <=> (pass = "failed")
    /\ raised # <<>> =>
          /\ \A w \in Workers : ~Running(w)
          /\ Range(taken) \subseteq finished
          /\ \A i \in Range(taken) \cup finished : i[1] = "compile"

\* C2 witness: two compile jobs failed concurrently, one failure was raised
C2_Witness ==
    /\ pass = "failed"
    /\ Cardinality(fn_failed) >= 2
    /\ Len(exceptions) >= 2
    /\ raised = <<"Compilation failed.">>

\* C3: when the archive subprocess of a library fails, archive_all ends in a
\* failure raised to its caller; it never returns normally.
C3_ArchiveFailureFatal ==
    (\E i \in fn_failed : i[1] = "archive") => pass # "archived"

\* C4: every worker thread a pass created has ended and is joined before the
\* pass returns, whether the pass succeeded or failed; so an archive job
\* runs only when every compile job of every library has completed.
C4_PassBarrier ==
    /\ mpc \in {"ret", "none"} =>
          /\ \A w \in Workers : threads[w].st \in {"none", "exited"}
          /\ pass # "none" => joined = worker_count(n_jobs)
    /\ \A w \in Workers :
          (Running(w) /\ threads[w].item[1] = "archive") =>
              compiled = CompileItems

\* C4 witness: an archive job is running (after a compile pass with several
\* workers and jobs), and a failed pass has returned with all threads joined
C4_Witness ==
    \/ /\ \E w \in Workers : Running(w) /\ threads[w].item[1] = "archive"
       /\ Cardinality(compiled) >= 2
       /\ worker_count(n_jobs) >= 2
    \/ /\ pass = "failed"
       /\ worker_count(n_jobs) >= 2

\* the items of the sequence are pairwise different
Distinct(s) == \A i, j \in DOMAIN s : i # j => s[i] # s[j]

\* C23: each work item is taken by at most one worker and its function is
\* run at most once; items are taken in the order of the input sequence; and
\* when no item's function fails, every item of the sequence has been run
\* exactly once by the time parallel_run returns, for any n_jobs >= 1 and any
\* number of items (zero items and fewer items than workers included).
C23_WorkDistribution ==
    n_jobs >= 1 =>
        /\ Len(taken) <= Len(rng)
        /\ taken = SubSeq(rng, 1, Len(taken))
        /\ Distinct(taken)
        /\ \A w \in Workers :
              Running(w) =>
                 /\ threads[w].item \in Range(taken)
                 /\ threads[w].st = "run" => threads[w].item \notin finished
                 /\ \A v \in Workers \ {w} : Running(v) => threads[v].item # threads[w].item
        /\ (mpc = "ret" /\ fn_failed \cap Range(rng) = {}) =>
              /\ taken = rng
              /\ Range(rng) \subseteq finished
              /\ \A w \in Workers : ~Running(w)

\* C23 witness: parallel_run returned with no failure after two workers ran
\* a sequence of at least three items, in the compile pass
C23_Witness ==
    /\ mpc = "ret"
    /\ pass = "compile"
    /\ n_jobs >= 2
    /\ Len(rng) >= 3
    /\ fn_failed = {}
    /\ taken = rng
    /\ Range(rng) \subseteq finished

\* C24: at every moment of a pass the number of work items being executed
\* is at most the number of workers, which is n_jobs when n_jobs >= 1 and
\* hardware_concurrency + 2 when n_jobs < 1; no thread beyond that number
\* exists; and no worker takes an item before all workers of the pass have
\* been created.
C24_BoundedParallelism ==
    LET bound   == IF n_jobs >= 1 THEN n_jobs ELSE HardwareConcurrency + 2
        created == {w \in Workers : threads[w].st # "none"}
        started == {w \in Workers : threads[w].st \notin {"none", "lock"}}
    IN  /\ Cardinality({w \in Workers : Running(w)}) <= bound
        /\ Cardinality(created) <= bound
        /\ (started # {} \/ (mpc = "spawn" /\ taken # <<>>))
              => Cardinality(created) = bound

\* C24 witness: with n_jobs unspecified, as many items are being executed at
\* once as there are workers
C24_Witness ==
    /\ n_jobs < 1
    /\ Cardinality({w \in Workers : threads[w].st = "run"}) = HardwareConcurrency + 2
    /\ \A w \in Workers : threads[w].st # "none"

(***************************************************************************)
(* Properties of the repository                                            *)
(***************************************************************************)
IoFailures == {"remove_tmp_failed", "copy_failed", "remove_dest_failed",
               "rename_failed"}

\* a call has been made and has ended
CallEnded == rpc = "idle" /\ result \notin {"none", "running"}

ExistedBefore == pre.disk[sd_dest] # Absent

\* the sdist that a successful import of call.sd puts into the repository
Imported == [manifest |-> call.sd.manifest, path |-> sd_dest]

\* C5: on an existing destination, throw raises sdist_exists and ignore
\* returns, both leaving disk and memory as they were, and replace imports;
\* on a missing destination every policy imports, and after the import
\* find(pkg_id) returns the imported sdist.
C5_ExistsPolicy ==
    CallEnded =>
        /\ (ExistedBefore /\ call.ife_action = "throw_exc") =>
              (result = "sdist_exists" /\ disk = pre.disk /\ _sdists = pre.sdists)
        /\ (ExistedBefore /\ call.ife_action = "ignore") =>
              (result = "ignored" /\ disk = pre.disk /\ _sdists = pre.sdists)
        /\ (ExistedBefore /\ call.ife_action = "replace") =>
              /\ result \in {"ok"} \cup IoFailures
              /\ result = "ok" => disk[sd_dest] = SourceTree(call.sd)
        /\ ~ExistedBefore =>
              /\ result \in {"ok"} \cup IoFailures
              /\ result = "ok" =>
                    /\ disk[sd_dest] = SourceTree(call.sd)
                    /\ find(call.sd.manifest.pkg_id) = Imported

\* C6: add_sdist on a handle that is not write-enabled terminates the
\* process at once: no step of the import is entered, and neither the disk
\* nor the in-memory set differs from what it was when the call was made.
C6_WriteGate ==
    ~_write_enabled =>
        /\ rpc \in {"idle", "terminated"}
        /\ result \in {"none", "terminated"}
        /\ disk = pre.disk
        /\ _sdists = pre.sdists
        /\ result = "terminated" <=> rpc = "terminated"
        /\ call # NoCall => rpc = "terminated"

\* C6 witness: a read-only handle was asked to replace an existing sdist
C6_Witness ==
    /\ rpc = "terminated"
    /\ call.ife_action = "replace"
    /\ ExistedBefore

\* C7: between calls, the in-memory set has exactly one entry for each
\* directory of root that is not a dot-file and loads as an sdist, and no
\* other entry.
C7_RepositoryInvariant ==
    rpc = "idle" =>
        /\ {e.path : e \in _sdists}
              = {n \in DirNames : /\ ~starts_with_dot(n)
                                  /\ from_directory(n, disk[n]) # NoSdist}
        /\ \A e1, e2 \in _sdists : e1.path = e2.path => e1 = e2

\* C8: while add_sdist runs and after it ended, also by an I/O failure, a
\* destination that was absent or complete when the call was made is absent
\* or holds a complete tree, never a partial one, and it is left untouched
\* until the copy into .tmp-import has completed.
C8_AtomicImport ==
    (result # "none" /\ (~ExistedBefore \/ pre.disk[sd_dest].full)) =>
        /\ disk[sd_dest] = Absent \/ disk[sd_dest].full
        /\ rpc \in {"remove_tmp", "copy", "remove_dest"} =>
              disk[sd_dest] = pre.disk[sd_dest]

\* C9: while the import runs, and after it was aborted by an I/O failure,
\* the in-memory set is what it was before the call; a failed copy leaves
\* every directory but .tmp-import as it was, a failed rename leaves the
\* complete copy in .tmp-import and no destination; the set differs from
\* its value before the call only after the call ended in success.
C9_FailureSemantics ==
    /\ rpc \in {"remove_tmp", "copy", "remove_dest", "rename", "insert"} =>
          _sdists = pre.sdists
    /\ (CallEnded /\ result \in IoFailures) => _sdists = pre.sdists
    /\ (CallEnded /\ result = "copy_failed") =>
          /\ \A n \in DirNames \ {TmpImport} : disk[n] = pre.disk[n]
          /\ disk[TmpImport] \in {Absent} \cup Partial(SourceTree(call.sd))
    /\ (CallEnded /\ result = "rename_failed") =>
          /\ \A n \in DirNames \ {TmpImport, sd_dest} : disk[n] = pre.disk[n]
          /\ disk[sd_dest] = Absent
          /\ disk[TmpImport] = SourceTree(call.sd)
    /\ _sdists # pre.sdists => (rpc = "idle" /\ result = "ok")

\* C9 witness: a copy failed and left a partial tree under .tmp-import,
\* beside a loaded sdist
C9_Witness ==
    /\ CallEnded
    /\ result = "copy_failed"
    /\ disk[TmpImport] = tree(call.sd.manifest, FALSE)
    /\ _sdists # {}

\* C10: after a successful replace of a package id that was in the
\* repository, find(pkg_id) returns the sdist reloaded from the new
\* destination, with the manifest of the imported sd.
C10_ReplaceReloads ==
    (/\ CallEnded
     /\ result = "ok"
     /\ call.ife_action = "replace"
     /\ find_in(pre.sdists, call.sd.manifest.pkg_id) # NoSdist) =>
        find(call.sd.manifest.pkg_id) = Imported

\* C11: a .tmp-import directory left by an aborted add_sdist is gone once
\* the repository has been opened again, and it is never listed as an sdist.
C11_TmpPruned ==
    result = "opened" =>
        /\ disk[TmpImport] = Absent
        /\ \A e \in _sdists : e.path # TmpImport

\* C12: versions_of returns, for every name, the local sdists and the
\* catalog's entries of that name in ascending package_id order, each
\* package_id exactly once.
C12_VersionsOf ==
    op = "versions_of" =>
        LET local == {e.manifest.pkg_id : e \in _sdists}
            want  == {p \in local \cup arg.catalog : p.name = arg.name}
        IN  /\ Range(ret) = want
            /\ \A i \in 1..(Len(ret) - 1) : less(ret[i], ret[i + 1])

\* the usages behind the edges a traversal follows from key
Edges(_reqs, key, with_links) ==
    IF key \notin DOMAIN _reqs THEN {}
    ELSE Range(_reqs[key].uses)
            \cup (IF with_links THEN Range(_reqs[key].links) ELSE {})

RECURSIVE ReachedFrom(_, _, _)
ReachedFrom(_reqs, seen, with_links) ==
    LET more == seen \cup UNION {Edges(_reqs, k, with_links) : k \in seen}
    IN  IF more = seen THEN seen ELSE ReachedFrom(_reqs, more, with_links)

\* C13: include_paths(k) and link_paths(k) terminate for every key k of the
\* map, also when the edges reachable from k contain a cycle.
C13_Terminates ==
    (op \in {"include_paths", "link_paths"} /\ arg.key \in DOMAIN arg._reqs)
        => ret.kind # "no_return"

\* the keys in the order a pre-order traversal first visits them: todo holds
\* the usages still to visit, a usage already seen is passed over
RECURSIVE FirstVisits(_, _, _, _)
FirstVisits(_reqs, todo, seen, with_links) ==
    IF todo = <<>> THEN <<>>
    ELSE LET k == Head(todo)
         IN  IF k \in seen \/ k \notin DOMAIN _reqs
             THEN FirstVisits(_reqs, Tail(todo), seen, with_links)
             ELSE <<k>> \o FirstVisits(_reqs,
                               _reqs[k].uses
                                   \o (IF with_links THEN _reqs[k].links ELSE <<>>)
                                   \o Tail(todo),
                               seen \cup {k}, with_links)

RECURSIVE PathsOf(_, _, _)
PathsOf(_reqs, keys, linking) ==
    IF keys = <<>> THEN <<>>
    ELSE LET lib == _reqs[Head(keys)]
             own == IF ~linking THEN lib.include_paths
                    ELSE IF lib.linkable_path # NoPath THEN <<lib.linkable_path>>
                    ELSE <<>>
         IN  own \o PathsOf(_reqs, Tail(keys), linking)

\* C14: the paths returned by link_paths(k) and include_paths(k) are those
\* of the libraries in pre-order (own paths, then uses, then for link_paths
\* links), every library contributing once, where it is first visited.
C14_PreOrderOnce ==
    (op \in {"include_paths", "link_paths"} /\ ret.kind = "return") =>
        ret.paths = PathsOf(arg._reqs,
                            FirstVisits(arg._reqs, <<arg.key>>, {}, op = "link_paths"),
                            op = "link_paths")

\* a usage that is not a key is reached from the key over the followed edges
Dangling(_reqs, key, with_links) ==
    \E n \in ReachedFrom(_reqs, {key}, with_links) : n \notin DOMAIN _reqs

\* C15: link_paths(k) raises unknown_usage_name when k or a usage reached
\* over uses or links edges is not a key; include_paths(k) raises it when k
\* or a usage reached over uses edges is not a key, and does not raise for
\* a dangling edge reachable only over links.
C15_DanglingRaises ==
    /\ (op = "link_paths" /\ Dangling(arg._reqs, arg.key, TRUE))
            => ret = Throw("unknown_usage_name")
    /\ (op = "include_paths" /\ Dangling(arg._reqs, arg.key, FALSE))
            => ret = Throw("unknown_usage_name")
    /\ (op = "include_paths" /\ ~Dangling(arg._reqs, arg.key, FALSE))
            => ret.kind # "throw"

\* the values a toolchain file gives for a key, in their order
RECURSIVE ValuesOf(_, _)
ValuesOf(pairs, key) ==
    IF pairs = <<>> THEN <<>>
    ELSE (IF Head(pairs).key = key THEN <<Head(pairs).value>> ELSE <<>>)
            \o ValuesOf(Tail(pairs), key)

Given(key) == ValuesOf(arg.pairs, key) # <<>>

GivenOnce(key) == Len(ValuesOf(arg.pairs, key)) = 1

\* C16: Include-Template and External-Include-Template are independent keys:
\* a file that gives each once is not refused for it; the value of each
\* becomes the template of its own kind of include directory only; and
\* External-Include-Template alone leaves the include template at the
\* default deduced from the compiler id.
C16_IndependentTemplates ==
    op = "parse_toolchain_dds" =>
        /\ (GivenOnce("Include-Template") /\ GivenOnce("External-Include-Template")
             /\ ret.kind = "error")
                => /\ ret.what # <<"More than one value provided for key", "Include-Template">>
                   /\ ret.what # <<"More than one value provided for key",
                                   "External-Include-Template">>
        /\ (ret.kind = "toolchain" /\ GivenOnce("Include-Template"))
                => ret.tc._inc_template
                      = split_shell_string(ValuesOf(arg.pairs, "Include-Template")[1])
        /\ (ret.kind = "toolchain" /\ GivenOnce("External-Include-Template"))
                => ret.tc._extern_inc_template
                      = split_shell_string(ValuesOf(arg.pairs, "External-Include-Template")[1])
        /\ (ret.kind = "toolchain" /\ ~Given("Include-Template")
             /\ Given("External-Include-Template") /\ Given("Compiler-ID"))
                => ret.tc._inc_template \in {Argv(<<"-I", "<PATH>">>), Argv(<<"/I", "<PATH>">>)}

\* the options whose default cannot be deduced without a compiler id, each
\* with the error thrown when it is needed
DeducedOrFail ==
    {<<"Include-Template", <<"Cannot deduce 'Include-Template' without 'Compiler-ID'">>>>,
     <<"Define-Template", <<"Cannot deduce 'Define-Template' without 'Compiler-ID'">>>>,
     <<"Archive-Suffix", <<"Cannot deduce library file extension without Compiler-ID">>>>,
     <<"Object-Suffix", <<"Cannot deduce object file extension without Compiler-ID">>>>,
     <<"Create-Archive", <<"Unable to deduce archive creation rules without a Compiler-ID">>>>,
     <<"Link-Executable",
       <<"Unable to deduce how to link executables without a Compiler-ID">>>>}

RECURSIVE SplitAll(_)
SplitAll(values) ==
    IF values = <<>> THEN <<>>
    ELSE split_shell_string(Head(values)) \o SplitAll(Tail(values))

AccumulatingOptions ==
    {<<"Warning-Flags", "warning_flags">>, <<"Flags", "flags">>, <<"C-Flags", "c_flags">>,
     <<"C++-Flags", "cxx_flags">>, <<"Link-Flags", "link_flags">>}

SingleValueOptions ==
    {"Include-Template", "External-Include-Template", "Define-Template",
     "Compiler-Launcher", "C-Compile-File", "C++-Compile-File", "Create-Archive",
     "Link-Executable"}

\* C18: an accumulating option that occurs several times yields the shell
\* words of all its values in declaration order; a single-value argv option
\* that occurs more than once makes parsing fail, with no toolchain.
C18_AccumulateOrFail ==
    op = "parse_toolchain_dds" =>
        /\ \A key \in SingleValueOptions :
              Len(ValuesOf(arg.pairs, key)) > 1 => ret.kind = "error"
        /\ ret.kind = "toolchain" =>
              /\ \A o \in AccumulatingOptions :
                    Given(o[1]) => ret.read[o[2]] = Some(SplitAll(ValuesOf(arg.pairs, o[1])))
              /\ Given("Warning-Flags")
                    => ret.tc._warning_flags = SplitAll(ValuesOf(arg.pairs, "Warning-Flags"))

\* a file that gives Flags twice, around another option, was parsed
C18_Witness ==
    /\ op = "parse_toolchain_dds"
    /\ ret.kind = "toolchain"
    /\ \E i, j \in DOMAIN arg.pairs :
          /\ i + 1 < j
          /\ arg.pairs[i].key = "Flags"
          /\ arg.pairs[j].key = "Flags"
          /\ arg.pairs[i].value # arg.pairs[j].value

\* the compile command for src/a.cpp and build/a.o was made from the
\* toolchain parsed from {Compiler-ID: GNU, C++-Version: C++17, Debug: True}
GccDefaultsCase ==
    /\ op = "create_compile_command"
    /\ arg.pairs = <<Pair("Compiler-ID", <<"GNU">>), Pair("C++-Version", <<"C++17">>),
                     Pair("Debug", <<"True">>)>>
    /\ ret.spec.source_path = Path(<<"src/">>, <<"a">>, <<".cpp">>)
    /\ ret.spec.out_path = Path(<<"build/">>, <<"a">>, <<".o">>)

Occurs(command, words) ==
    \E i \in 1..(Len(command) - Len(words) + 1) :
        SubSeq(command, i, i + Len(words) - 1) = words

Before(command, a, b) ==
    \E i, j \in DOMAIN command : i < j /\ command[i] = a /\ command[j] = b

DepfileWords ==
    <<<<"-MD">>, <<"-MF">>, <<"build/", "a", ".o", ".d">>, <<"-MT">>, <<"build/", "a", ".o">>>>

CompileWords == <<<<"-c">>, <<"src/", "a", ".cpp">>, <<"-o", "build/", "a", ".o">>>>

\* C20 as stated: the argv begins with g++ -g -fPIC -fdiagnostics-color
\* -pthread, has -std=c++17 after -pthread and before -c src/a.cpp
\* -obuild/a.o, contains -MD -MF build/a.o.d -MT build/a.o, and the depfile
\* path is build/a.o.d.
C20_GccDefaults ==
    GccDefaultsCase =>
        /\ SubSeq(ret.command, 1, 5)
              = Argv(<<"g++", "-g", "-fPIC", "-fdiagnostics-color", "-pthread">>)
        /\ Before(ret.command, <<"-pthread">>, <<"-std=c++17">>)
        /\ Before(ret.command, <<"-std=c++17">>, <<"-c">>)
        /\ Occurs(ret.command, CompileWords)
        /\ Occurs(ret.command, DepfileWords)
        /\ ret.gnu_depfile_path = Some(Path(<<"build/">>, <<"a">>, <<".o", ".d">>))

\* C20, amended: the argv begins with g++ -std=c++17 -g -fPIC
\* -fdiagnostics-color -pthread (the version flag comes before the other
\* flags, not after -pthread), ends with -c src/a.cpp -obuild/a.o, contains
\* -MD -MF build/a.o.d -MT build/a.o between them, and the depfile path is
\* build/a.o.d.
C20_GccDefaultsAmended ==
    GccDefaultsCase =>
        /\ SubSeq(ret.command, 1, 6)
              = Argv(<<"g++", "-std=c++17", "-g", "-fPIC", "-fdiagnostics-color", "-pthread">>)
        /\ SubSeq(ret.command, Len(ret.command) - 2, Len(ret.command)) = CompileWords
        /\ Occurs(SubSeq(ret.command, 7, Len(ret.command) - 3), DepfileWords)
        /\ ret.gnu_depfile_path = Some(Path(<<"build/">>, <<"a">>, <<".o", ".d">>))

\* the command of that case was made, with include directories in the spec
C20_Witness ==
    /\ GccDefaultsCase
    /\ ret.spec.include_dirs # <<>>

\* the built-in id grammar on the pieces of an id:
\* (debug:)?(ccache:)?(c++NN:)?(gcc|clang|msvc)(-(7|...|13))?
InGrammar(pieces) ==
    LET p1 == IF pieces # <<>> /\ Head(pieces) = "debug" THEN Tail(pieces) ELSE pieces
        p2 == IF p1 # <<>> /\ Head(p1) = "ccache" THEN Tail(p1) ELSE p1
        p3 == IF p2 # <<>> /\ Head(p2) \in {"cxx11", "cxx17"} THEN Tail(p2) ELSE p2
    IN  /\ Len(p3) \in {1, 2}
        /\ p3[1] \in {"gcc", "clang", "msvc"}
        /\ Len(p3) = 2 => p3[2] \in {"v7", "v13"}

\* C19: get_builtin(id) yields a toolchain if and only if id matches the
\* built-in id grammar; every other id is rejected with no toolchain.
C19_BuiltinGrammar ==
    op = "get_builtin" =>
        /\ InGrammar(arg.pieces) => ret.kind = "toolchain"
        /\ ~InGrammar(arg.pieces) => ret.kind = "nullopt"


(***************************************************************************)
(* Properties of the archive file name                                     *)
(***************************************************************************)
\* C21: the static archive file of a library is named archive_prefix + name
\* + archive_suffix with the prefix and suffix of the toolchain in use: it
\* starts with the value of Archive-Prefix when the toolchain file gives
\* one, and with "lib" when the file gives none.
C21_ArchiveFileName ==
    op = "archive_file_path" =>
        /\ ret.fname = ret.tc._archive_prefix \o arg.ar_plan.name \o ret.tc._archive_suffix
        /\ Given("Archive-Prefix")
              => starts_with(ret.fname, ValuesOf(arg.pairs, "Archive-Prefix")[1])
        /\ ~Given("Archive-Prefix") => starts_with(ret.fname, <<"lib">>)


(***************************************************************************)
(* Properties of the compile command                                       *)
(***************************************************************************)
\* a path written out as a string
PathString(p) == p.dir \o p.stem \o p.extension

RECURSIVE Subst(_, _, _)
\* the token with the placeholder key replaced by repl wherever it occurs
Subst(token, key, repl) ==
    IF token = <<>> THEN <<>>
    ELSE Subst(SubSeq(token, 1, Len(token) - 1), key, repl)
            \o (IF token[Len(token)] = key THEN repl ELSE <<token[Len(token)]>>)

RECURSIVE BoundToEach(_, _, _)
\* the template bound to each value in turn, one after the other
BoundToEach(template, key, values) ==
    IF values = <<>> THEN <<>>
    ELSE [i \in DOMAIN template |-> Subst(template[i], key, values[1])]
            \o BoundToEach(template, key, Tail(values))

\* the flags vector of the claim, in its order
ExpectedFlags(tc, spec) ==
    BoundToEach(tc._inc_template, "<PATH>",
                [i \in DOMAIN spec.include_dirs |-> PathString(spec.include_dirs[i])])
    \o BoundToEach(tc._extern_inc_template, "<PATH>",
                   [i \in DOMAIN spec.external_include_dirs
                        |-> PathString(spec.external_include_dirs[i])])
    \o BoundToEach(tc._def_template, "<DEF>", spec.definitions)
    \o (IF spec.enable_warnings THEN tc._warning_flags ELSE <<>>)
    \o (CASE tc._deps_mode = "gnu" ->
                <<<<"-MD">>, <<"-MF">>, PathString(spec.out_path) \o <<".d">>,
                  <<"-MT">>, PathString(spec.out_path)>>
          [] tc._deps_mode = "msvc" -> <<<<"/showIncludes">>>>
          [] tc._deps_mode = "none" -> <<>>)

RECURSIVE Expanded(_, _, _)
\* the template with the flags spliced in place of every token <FLAGS> and
\* <IN>, <OUT> substituted inside the other tokens
Expanded(template, flags, spec) ==
    IF template = <<>> THEN <<>>
    ELSE (IF template[1] = <<"<FLAGS>">> THEN flags
          ELSE <<Subst(Subst(template[1], "<IN>", PathString(spec.source_path)),
                       "<OUT>", PathString(spec.out_path))>>)
            \o Expanded(Tail(template), flags, spec)

\* the compile template the claim selects
SelectedTemplate(tc, spec) ==
    CASE spec.lang = "c"   -> tc._c_compile
      [] spec.lang = "cxx" -> tc._cxx_compile
      [] spec.lang = "automatic" ->
            IF spec.source_path.extension \in {<<".c">>, <<".C">>}
            THEN tc._c_compile ELSE tc._cxx_compile

\* C22: create_compile_command(spec) returns the selected compile template
\* (by lang; C for .c or .C, else C++, when lang is automatic) with every
\* token equal to <FLAGS> replaced by the whole flags vector and <IN>, <OUT>
\* substituted inside every other token; the flags are the include
\* template bound to each include dir, the external-include template bound
\* to each external include dir, the define template bound to each
\* definition, the warning flags if enabled, then the depfile extras; the
\* depfile path out_path + ".d" is returned for GNU and none otherwise.  The
\* argv is a function of the toolchain and the spec alone, so the same spec
\* on the same toolchain always gives the same argv.
C22_CompileCommand ==
    op = "create_compile_command" =>
        /\ ret.command
              = Expanded(SelectedTemplate(ret.tc, ret.spec),
                         ExpectedFlags(ret.tc, ret.spec), ret.spec)
        /\ ret.tc._deps_mode = "gnu" =>
              /\ ret.gnu_depfile_path.has_value
              /\ PathString(ret.gnu_depfile_path.value)
                    = PathString(ret.spec.out_path) \o <<".d">>
        /\ ret.tc._deps_mode # "gnu" => ~ret.gnu_depfile_path.has_value

\* C22 witness: a command was made for a spec whose lang overrides the
\* extension, with two include dirs, two definitions and warnings, by a GNU
\* deps-mode toolchain whose C template has a <FLAGS> token and whose
\* templates and warning flags put words in the flags
C22_Witness ==
    /\ op = "create_compile_command"
    /\ ret.spec.lang = "c"
    /\ ret.spec.source_path.extension = <<".cpp">>
    /\ Len(ret.spec.include_dirs) = 2
    /\ Len(ret.spec.definitions) = 2
    /\ ret.spec.enable_warnings
    /\ ret.tc._warning_flags # <<>>
    /\ ret.tc._deps_mode = "gnu"
    /\ \E i \in DOMAIN ret.tc._c_compile : ret.tc._c_compile[i] = <<"<FLAGS>">>
    /\ \E i \in DOMAIN ret.command : ret.command[i] = <<"-MF">>

====
